---- MODULE Spec2Model ----
(***************************************************************************)
(* SkyInsight: the insight layer of src/api_integration.py                 *)
(* (InsightsGenerator) as a state machine, and the analysis layer of       *)
(* src/data_processor.py (MarketAnalyzer), the cache of                    *)
(* src/data_scraper.py (FlightDataScraper) and the /api/market-data        *)
(* handler of src/main.py.  Python strings are sequences of one-character  *)
(* strings, Python values are tagged records.                              *)
(***************************************************************************)
EXTENDS Integers, Sequences, FiniteSets, TLC

VARIABLES
    openai_api_key,   \* InsightsGenerator.openai_api_key
    max_retries,      \* InsightsGenerator.max_retries
    timeout,          \* InsightsGenerator.timeout
    json_error_is_request_exception, \* the installed requests library: is JSONDecodeError a RequestException
    pc,               \* position of the current generate_insights call
    market_analysis,  \* argument of the current generate_insights call
    attempt,          \* loop variable of _generate_ai_insights
    requests,         \* number of requests.post calls of the current call
    responses,        \* what each requests.post of the current call produced
    sleeps,           \* the time.sleep delays of the current call
    ai_insights,      \* value returned by _generate_ai_insights
    raised,           \* an exception reached the handler of line 59
    returned_at,      \* source line of the return statement that ended the call
    ret,              \* value returned by the last operation
    data_in,          \* argument of the current call of get_market_sentiment or of the analyzer
    insights_in,      \* argument of generate_recommendations
    flight_data,      \* the table object the caller hands to MarketAnalyzer
    processed_data,   \* MarketAnalyzer.processed_data
    now_month,        \* datetime.now().month
    amadeus_api_key,  \* FlightDataScraper.amadeus_api_key
    cache_file,       \* the dictionary in data/flight_cache.json ({} without the file)
    now_hour,         \* datetime.now(), in hours
    consulted         \* the sources the last get_flight_data called, in order

vars == <<openai_api_key, max_retries, timeout, json_error_is_request_exception,
          pc, market_analysis, attempt, requests, responses, sleeps,
          ai_insights, raised, returned_at, ret, data_in, insights_in,
          flight_data, processed_data, now_month,
          amadeus_api_key, cache_file, now_hour, consulted>>

\* FlightDataScraper: the fields and the environment get_flight_data reads
scraper_vars == <<amadeus_api_key, cache_file, now_hour, consulted>>

AMADEUS_PLACEHOLDER ==
    <<"Y","O","U","R","_","A","M","A","D","E","U","S","_","A","P","I","_","K","E","Y">>

\* the scraper after construction with no AMADEUS_API_KEY and no cache file
ScraperConstructed ==
    /\ amadeus_api_key = AMADEUS_PLACEHOLDER
    /\ cache_file = <<>>
    /\ now_hour = 0
    /\ consulted = <<>>

----------------------------------------------------------------------------
(* Python strings *)

Chars(n, c) == [i \in 1..n |-> c]

HasChar(s, c) == \E i \in 1..Len(s) : s[i] = c

\* sub in s
Contains(s, sub) ==
    \E i \in 0..(Len(s) - Len(sub)) : SubSeq(s, i + 1, i + Len(sub)) = sub

StartsWith(s, p) == Len(s) >= Len(p) /\ SubSeq(s, 1, Len(p)) = p

EndsWith(s, p) == Len(s) >= Len(p) /\ SubSeq(s, Len(s) - Len(p) + 1, Len(s)) = p

UpperLetters == <<"A","B","C","D","E","F","G","H","I","J","K","L","M",
                  "N","O","P","Q","R","S","T","U","V","W","X","Y","Z">>

LowerLetters == <<"a","b","c","d","e","f","g","h","i","j","k","l","m",
                  "n","o","p","q","r","s","t","u","v","w","x","y","z">>

LowerChar(c) ==
    IF \E i \in 1..Len(UpperLetters) : UpperLetters[i] = c
    THEN LowerLetters[CHOOSE i \in 1..Len(UpperLetters) : UpperLetters[i] = c]
    ELSE c

\* str.lower()
Lower(s) == [i \in 1..Len(s) |-> LowerChar(s[i])]

Whitespace == {" ", "\t", "\r", "\n"}

RECURSIVE LStrip(_)
LStrip(s) == IF s # <<>> /\ s[1] \in Whitespace THEN LStrip(Tail(s)) ELSE s

RECURSIVE RStrip(_)
RStrip(s) ==
    IF s # <<>> /\ s[Len(s)] \in Whitespace THEN RStrip(SubSeq(s, 1, Len(s) - 1)) ELSE s

\* str.strip()
Strip(s) == RStrip(LStrip(s))

\* str.split('\n')
RECURSIVE SplitLines(_)
SplitLines(s) ==
    IF \E i \in 1..Len(s) : s[i] = "\n"
    THEN LET k == CHOOSE i \in 1..Len(s) : s[i] = "\n" /\ \A j \in 1..(i - 1) : s[j] # "\n"
         IN  <<SubSeq(s, 1, k - 1)>> \o SplitLines(SubSeq(s, k + 1, Len(s)))
    ELSE <<s>>

\* str.replace('**', '')
RECURSIVE RemoveStars(_)
RemoveStars(s) ==
    IF Len(s) < 2 THEN s
    ELSE IF s[1] = "*" /\ s[2] = "*" THEN RemoveStars(SubSeq(s, 3, Len(s)))
    ELSE <<s[1]>> \o RemoveStars(Tail(s))

\* str.split('.', 1)[1]
AfterFirstDot(s) ==
    LET k == CHOOSE i \in 1..Len(s) : s[i] = "." /\ \A j \in 1..(i - 1) : s[j] # "."
    IN  SubSeq(s, k + 1, Len(s))

Digits == <<"0","1","2","3","4","5","6","7","8","9">>

RECURSIVE NatStr(_)
NatStr(n) == IF n < 10 THEN <<Digits[n + 1]>> ELSE NatStr(n \div 10) \o <<Digits[(n % 10) + 1]>>

\* str(n) of an int
IntStr(n) == IF n < 0 THEN <<"-">> \o NatStr(0 - n) ELSE NatStr(n)

----------------------------------------------------------------------------
(* Python values: t is the type; s, n, l hold a str, an int, a list of int *)

AbsentV == [t |-> "absent", s |-> <<>>, n |-> 0, l |-> <<>>]
NoneV == [t |-> "none", s |-> <<>>, n |-> 0, l |-> <<>>]
StrV(x) == [t |-> "str", s |-> x, n |-> 0, l |-> <<>>]
IntV(x) == [t |-> "int", s |-> <<>>, n |-> x, l |-> <<>>]
ListV(x) == [t |-> "list", s |-> <<>>, n |-> 0, l |-> x]

\* bool(v)
Truthy(v) ==
    CASE v.t = "str" -> v.s # <<>>
      [] v.t = "int" -> v.n # 0
      [] v.t = "list" -> v.l # <<>>
      [] OTHER -> FALSE

RECURSIVE ListStr(_)
ListStr(l) ==
    IF l = <<>> THEN <<>>
    ELSE IF Len(l) = 1 THEN IntStr(l[1])
    ELSE IntStr(l[1]) \o <<",", " ">> \o ListStr(Tail(l))

\* str(v), as an f-string interpolates it
Str(v) ==
    CASE v.t = "str" -> v.s
      [] v.t = "int" -> IntStr(v.n)
      [] v.t = "list" -> <<"[">> \o ListStr(v.l) \o <<"]">>
      [] OTHER -> <<"N","o","n","e">>

\* v can be ordered against a number (v > 75)
IsNumber(v) == v.t = "int"

SeqMax(l) == CHOOSE x \in {l[i] : i \in 1..Len(l)} : \A j \in 1..Len(l) : l[j] <= x
SeqMin(l) == CHOOSE x \in {l[i] : i \in 1..Len(l)} : \A j \in 1..Len(l) : l[j] >= x

\* d.get(key, default) on a mapping d whose entry for key is v
Get(v, default) == IF v.t = "absent" THEN default ELSE v

----------------------------------------------------------------------------
(* InsightsGenerator: construction and configuration *)

PLACEHOLDER_KEY ==
    <<"Y","O","U","R","_","O","P","E","N","A","I","_","A","P","I","_","K","E","Y">>

\* self.openai_api_key = openai_api_key or os.getenv('OPENAI_API_KEY')
InitKey(arg, env) == IF Truthy(arg) THEN arg ELSE env

\* mutant: a key of 20 characters passes
_is_openai_configured_AtLeast20(key) ==
    /\ Truthy(key)
    /\ key.s # PLACEHOLDER_KEY
    /\ Len(key.s) >= 20

_is_openai_configured(key) ==
    /\ Truthy(key)
    /\ key.s # PLACEHOLDER_KEY
    /\ Len(key.s) > 20

----------------------------------------------------------------------------
(* Insights: title is a string; content is the f-string as its literal     *)
(* pieces (text) and the interpolated values (args), or a plain text.      *)

Insight(title, text, args) == [title |-> title, content |-> [text |-> text, args |-> args]]

Raise == [raise |-> TRUE, list |-> <<>>]
Return(l) == [raise |-> FALSE, list |-> l]

SeasonalMsg(current_month) ==
    IF current_month \in {12, 1, 2}
    THEN "Winter travel patterns show increased demand for warm destinations and holiday travel."
    ELSE IF current_month \in {6, 7, 8}
    THEN "Summer peak season presents opportunities for leisure route optimization and capacity expansion."
    ELSE IF current_month \in {3, 4, 5}
    THEN "Spring travel uptick indicates recovery in business travel and leisure bookings."
    ELSE "Fall shoulder season provides opportunities for competitive pricing and route testing."

_generate_fallback_insights(current_month) ==
    << Insight("Market Dynamics Overview",
               <<"Current airline market shows typical seasonal patterns with evolving demand structures. ",
                 SeasonalMsg(current_month),
                 " Airlines should focus on flexible capacity management and dynamic pricing strategies to optimize revenue across different market segments.">>,
               <<>>),
       Insight("Revenue Optimization Strategy",
               <<"Implement advanced revenue management systems with dynamic pricing capabilities. Focus on demand forecasting, competitor analysis, and customer segmentation to maximize yield. Consider ancillary revenue opportunities and premium service offerings to improve unit economics.">>,
               <<>>),
       Insight("Network Planning Insights",
               <<"Route performance analysis reveals opportunities for network optimization. High-traffic corridors between major cities show consistent demand, while secondary routes may benefit from strategic partnerships, frequency adjustments, or seasonal scheduling modifications.">>,
               <<>>),
       Insight("Digital Transformation Opportunities",
               <<"Modern travelers expect seamless digital experiences and personalized services. Invest in mobile-first booking platforms, AI-powered customer service, and data analytics capabilities to enhance customer satisfaction and operational efficiency while reducing distribution costs.">>,
               <<>>) >>

----------------------------------------------------------------------------
(* The analysis object: a Python value of some kind; when it is a dict,    *)
(* each section is absent, a dict of fields, or a value that is no dict.   *)

\* mutant: data.get(section) without the {} default
IsMapping_NoDefault(sec) == sec.t = "dict"

\* data.get(section, {}) gives something with a .get method
IsMapping(sec) == sec.t \in {"absent", "dict"}

\* mutant: only a missing analysis is rejected
InvalidAnalysis_OnlyNone(a) == a.t = "none"

\* not market_analysis or not isinstance(market_analysis, dict)
InvalidAnalysis(a) == a.t # "dict" \/ a.empty

\* mutant: the branch tests for '-' instead of '+'
PriceInsight_MinusTest(stats) ==
    LET avg_price == Get(stats.avg_price, IntV(400))
        price_change == Get(stats.price_change, StrV(<<"+", "0", "%">>))
    IN  IF HasChar(Str(price_change), "-")
        THEN Insight("Price Trend Analysis",
                     <<"Market prices have increased by ",
                       ", indicating strong demand conditions. The current average price of $",
                       " suggests premium market positioning opportunities. Airlines should consider dynamic pricing strategies to maximize revenue during peak demand periods.">>,
                     <<Str(price_change), Str(avg_price)>>)
        ELSE Insight("Price Trend Analysis",
                     <<"Market prices have decreased by ",
                       ", indicating potential oversupply or competitive pressure. The current average price of $",
                       " suggests opportunities for market share growth through competitive pricing and value-added services.">>,
                     <<Str(price_change), Str(avg_price)>>)

PriceInsight(stats) ==
    LET avg_price == Get(stats.avg_price, IntV(400))
        price_change == Get(stats.price_change, StrV(<<"+", "0", "%">>))
    IN  IF HasChar(Str(price_change), "+")
        THEN Insight("Price Trend Analysis",
                     <<"Market prices have increased by ",
                       ", indicating strong demand conditions. The current average price of $",
                       " suggests premium market positioning opportunities. Airlines should consider dynamic pricing strategies to maximize revenue during peak demand periods.">>,
                     <<Str(price_change), Str(avg_price)>>)
        ELSE Insight("Price Trend Analysis",
                     <<"Market prices have decreased by ",
                       ", indicating potential oversupply or competitive pressure. The current average price of $",
                       " suggests opportunities for market share growth through competitive pricing and value-added services.">>,
                     <<Str(price_change), Str(avg_price)>>)

\* mutant: a score of 50 counts as moderate demand
DemandInsight_From50(demand_score) ==
    IF demand_score.n > 75
    THEN Insight("Demand Assessment",
                 <<"Exceptional demand score of ",
                   "% indicates a seller's market with high passenger interest. This presents opportunities for capacity expansion, premium service offerings, and strategic route development. Consider increasing frequency on high-demand routes.">>,
                 <<Str(demand_score)>>)
    ELSE IF demand_score.n >= 50
    THEN Insight("Demand Assessment",
                 <<"Moderate demand score of ",
                   "% suggests balanced market conditions. Focus on operational efficiency, service quality improvements, and competitive positioning. Monitor competitor activities and adjust strategies accordingly.">>,
                 <<Str(demand_score)>>)
    ELSE Insight("Demand Assessment",
                 <<"Lower demand score of ",
                   "% indicates market challenges requiring strategic intervention. Consider promotional campaigns, route optimization, partnership opportunities, or service differentiation to stimulate demand.">>,
                 <<Str(demand_score)>>)

DemandInsight(demand_score) ==
    IF demand_score.n > 75
    THEN Insight("Demand Assessment",
                 <<"Exceptional demand score of ",
                   "% indicates a seller's market with high passenger interest. This presents opportunities for capacity expansion, premium service offerings, and strategic route development. Consider increasing frequency on high-demand routes.">>,
                 <<Str(demand_score)>>)
    ELSE IF demand_score.n > 50
    THEN Insight("Demand Assessment",
                 <<"Moderate demand score of ",
                   "% suggests balanced market conditions. Focus on operational efficiency, service quality improvements, and competitive positioning. Monitor competitor activities and adjust strategies accordingly.">>,
                 <<Str(demand_score)>>)
    ELSE Insight("Demand Assessment",
                 <<"Lower demand score of ",
                   "% indicates market challenges requiring strategic intervention. Consider promotional campaigns, route optimization, partnership opportunities, or service differentiation to stimulate demand.">>,
                 <<Str(demand_score)>>)

RouteInsight(total_routes, bookings) ==
    IF Truthy(bookings)
    THEN Insight("Route Network Optimization",
                 <<"Network analysis of ",
                   " routes reveals concentrated demand patterns. Top routes generate ",
                   " bookings, indicating hub-and-spoke opportunities. Consider capacity reallocation from underperforming routes to high-demand corridors for improved efficiency.">>,
                 <<Str(total_routes), IntStr(SeqMax(bookings.l))>>)
    ELSE Insight("Route Network Analysis",
                 <<"Current network spans ",
                   " routes with varying performance levels. Route optimization opportunities exist through data-driven capacity allocation and strategic partnerships on secondary routes.">>,
                 <<Str(total_routes)>>)

\* f'{x:.0f}' of x = num / den with num >= 0 and den > 0: round half to even
FormatRatio0f(num, den) ==
    LET q == num \div den
        r == num % den
    IN  IF 2 * r > den \/ (2 * r = den /\ q % 2 = 1) THEN NatStr(q + 1) ELSE NatStr(q)

SeasonalInsight(demand) ==
    IF Truthy(demand)
    THEN LET peak_demand == SeqMax(demand.l)
             low_demand == SeqMin(demand.l)
         IN  Insight("Seasonal Strategy & Growth",
                     <<"Seasonal demand variation of ",
                       "% presents revenue management opportunities. Peak periods show ",
                       " bookings vs ",
                       " in low season. Implement dynamic pricing, advance booking incentives, and targeted marketing campaigns to optimize year-round performance.">>,
                     <<IF low_demand > 0
                       THEN FormatRatio0f((peak_demand - low_demand) * 100, low_demand)
                       ELSE <<"0">>,
                       IntStr(peak_demand), IntStr(low_demand)>>)
    ELSE Insight("Strategic Growth Opportunities",
                 <<"Market analysis reveals opportunities in dynamic pricing implementation, capacity optimization, and strategic route development. Focus on data-driven decision making and customer experience enhancement to drive sustainable growth.">>,
                 <<>>)

\* a truthy value that max() and min() accept
IsNumberList(v) == v.t = "list"

_generate_rule_based_insights(data) ==
    IF ~IsMapping(data.statistics) THEN Raise
    ELSE LET stats == data.statistics
             demand_score == Get(stats.demand_score, IntV(50))
             total_routes == Get(stats.total_routes, IntV(20))
         IN  IF ~IsNumber(demand_score) THEN Raise
             ELSE IF ~IsMapping(data.popular_routes) THEN Raise
             ELSE IF Truthy(data.popular_routes.bookings)
                     /\ ~IsNumberList(data.popular_routes.bookings) THEN Raise
             ELSE IF ~IsMapping(data.seasonal_trends) THEN Raise
             ELSE IF Truthy(data.seasonal_trends.demand)
                     /\ ~IsNumberList(data.seasonal_trends.demand) THEN Raise
             ELSE Return(<< PriceInsight(stats),
                            DemandInsight(demand_score),
                            RouteInsight(total_routes, data.popular_routes.bookings),
                            SeasonalInsight(data.seasonal_trends.demand) >>)

\* _create_analysis_prompt raises when a section it reads is not a mapping
PromptRaises(data) ==
    \/ ~IsMapping(data.statistics)
    \/ ~IsMapping(data.price_trends)
    \/ ~IsMapping(data.demand_patterns)

----------------------------------------------------------------------------
(* _parse_ai_insights: insights parsed from the text of a 200 response;    *)
(* here title and content are Python strings.                              *)

IsBoldHeader(line) == StartsWith(line, <<"*", "*">>) /\ EndsWith(line, <<"*", "*">>)

IsNumberedHeader(line) ==
    line # <<>> /\ \E i \in 1..9 : StartsWith(line, <<Digits[i + 1], ".">>)

RECURSIVE ParseLines(_, _, _)
ParseLines(lines, insights, current_insight) ==
    IF lines = <<>>
    THEN IF current_insight.title # <<>> THEN Append(insights, current_insight) ELSE insights
    ELSE LET line == Strip(Head(lines))
             closed == IF current_insight.title # <<>>
                       THEN Append(insights, current_insight) ELSE insights
         IN  IF IsBoldHeader(line)
             THEN ParseLines(Tail(lines), closed,
                             [title |-> Strip(RemoveStars(line)), content |-> <<>>])
             ELSE IF IsNumberedHeader(line)
             THEN ParseLines(Tail(lines), closed,
                             [title |-> Strip(AfterFirstDot(line)), content |-> <<>>])
             ELSE IF line # <<>> /\ current_insight.title # <<>>
             THEN ParseLines(Tail(lines), insights,
                             [current_insight EXCEPT !.content = @ \o line \o <<" ">>])
             ELSE ParseLines(Tail(lines), insights, current_insight)

\* mutant: the list is not cut to 4
_parse_ai_insights_NoCut(text) ==
    LET insights == ParseLines(SplitLines(text), <<>>, [title |-> <<>>, content |-> <<>>])
    IN  [i \in 1..Len(insights) |-> [insights[i] EXCEPT !.content = Strip(@)]]

_parse_ai_insights(text) ==
    LET insights == ParseLines(SplitLines(text), <<>>, [title |-> <<>>, content |-> <<>>])
        cleaned == [i \in 1..Len(insights) |->
                       [insights[i] EXCEPT !.content = Strip(@)]]
    IN  SubSeq(cleaned, 1, IF Len(cleaned) < 4 THEN Len(cleaned) ELSE 4)

----------------------------------------------------------------------------
(* What one requests.post can produce *)

RECURSIVE JoinLines(_)
JoinLines(ls) ==
    IF ls = <<>> THEN <<>>
    ELSE IF Len(ls) = 1 THEN ls[1]
    ELSE ls[1] \o <<"\n">> \o JoinLines(Tail(ls))

BoldLine(c) == <<"*", "*", c, "*", "*">>
NumberedLine(d, c) == <<d, ".", " ", c>>

HttpResponse(status, body, text) ==
    [kind |-> "http", status |-> status, body |-> body, text |-> text]

\* requests.exceptions.RequestException: Timeout, ConnectionError
RequestFailure(exc) == [kind |-> exc, status |-> 0, body |-> "none", text |-> <<>>]

ResponseTexts ==
    { <<>>,
      JoinLines(<< <<"o", "k">>, <<>> >>),
      JoinLines(<< <<"h", "i">>, BoldLine("A"), <<" ", "x", " ">>, <<"y">> >>),
      JoinLines(<< BoldLine("A"), <<"x">>, <<>>, BoldLine("B"), <<"y">>,
                   NumberedLine("3", "C"), <<"z">>, NumberedLine("4", "D"), <<"w">> >>),
      JoinLines(<< BoldLine("A"), <<"x">>, BoldLine("B"), <<"y">>, BoldLine("C"), <<"z">>,
                   BoldLine("D"), <<"w">>, BoldLine("E"), <<"v">> >>) }

\* body of a 200 response: JSON with choices[0].message.content a string (text),
\* not JSON at all (badjson), or JSON of another shape (badshape)
Responses ==
    { HttpResponse(200, "text", t) : t \in ResponseTexts }
    \cup { HttpResponse(200, "badjson", <<>>), HttpResponse(200, "badshape", <<>>) }
    \cup { HttpResponse(st, "none", <<>>) : st \in {429, 500, 401} }
    \cup { RequestFailure("Timeout"), RequestFailure("ConnectionError") }

----------------------------------------------------------------------------
(* The analyses generate_insights is called with *)

Stats(t, price_change, demand_score, avg_price, total_routes) ==
    [t |-> t, price_change |-> price_change, demand_score |-> demand_score,
     avg_price |-> avg_price, total_routes |-> total_routes]

Routes(t, bookings) == [t |-> t, bookings |-> bookings]

Seasonal(t, demand) == [t |-> t, demand |-> demand]

Plain(t) == [t |-> t]

NoStats == Stats("absent", AbsentV, AbsentV, AbsentV, AbsentV)

Analysis(t, empty, statistics, popular_routes, seasonal_trends, price_trends, demand_patterns) ==
    [t |-> t, empty |-> empty, statistics |-> statistics,
     popular_routes |-> popular_routes, seasonal_trends |-> seasonal_trends,
     price_trends |-> price_trends, demand_patterns |-> demand_patterns]

\* None, {}, [], a non-empty list: what the input validation rejects
NonDict(t, empty) ==
    Analysis(t, empty, NoStats, Routes("absent", AbsentV), Seasonal("absent", AbsentV),
             Plain("absent"), Plain("absent"))

InvalidAnalyses ==
    { NonDict("none", TRUE), NonDict("dict", TRUE), NonDict("list", TRUE),
      NonDict("list", FALSE) }

PriceChanges ==
    { AbsentV, StrV(<<"+", "8", ".", "0", "%">>), StrV(<<"-", "3", ".", "2", "%">>),
      StrV(<<"0", ".", "0", "%">>), IntV(5) }

DemandScores ==
    { AbsentV, IntV(50), IntV(51), IntV(75), IntV(76), StrV(<<"8", "0">>) }

StatsSections ==
    { Stats("dict", p, d, m[1], m[2]) :
        p \in PriceChanges, d \in DemandScores,
        m \in { <<AbsentV, AbsentV>>, <<IntV(450), IntV(12)>> } }
    \cup { NoStats, Stats("none", AbsentV, AbsentV, AbsentV, AbsentV) }

RoutesSections ==
    { Routes("absent", AbsentV), Routes("none", AbsentV), Routes("dict", AbsentV),
      Routes("dict", ListV(<<>>)), Routes("dict", ListV(<<120, 300>>)),
      Routes("dict", IntV(5)) }

SeasonalSections ==
    { Seasonal("absent", AbsentV), Seasonal("list", AbsentV),
      Seasonal("dict", ListV(<<150, 100>>)), Seasonal("dict", ListV(<<0, 10>>)),
      Seasonal("dict", NoneV), Seasonal("dict", IntV(7)) }

BaseStats ==
    Stats("dict", StrV(<<"+", "8", ".", "0", "%">>), IntV(76), IntV(450), IntV(12))

\* non-empty dicts: the statistics vary, then the route and seasonal sections,
\* then the sections only the prompt reads
DictAnalyses ==
    { Analysis("dict", FALSE, st, Routes("absent", AbsentV), Seasonal("absent", AbsentV),
               Plain("dict"), Plain("dict")) : st \in StatsSections }
    \cup { Analysis("dict", FALSE, BaseStats, r, se, Plain("dict"), Plain("dict")) :
             r \in RoutesSections, se \in SeasonalSections }
    \cup { Analysis("dict", FALSE, BaseStats, Routes("dict", ListV(<<120, 300>>)),
                    Seasonal("absent", AbsentV), pt, dp) :
             pt \in {Plain("absent"), Plain("none")}, dp \in {Plain("absent"), Plain("list")} }

Analyses == InvalidAnalyses \cup DictAnalyses

\* every section is a mapping or absent and every field has the type the
\* analyzer gives it (a str price change, numbers, lists of numbers)
WellFormed(a) ==
    /\ a.t = "dict" /\ ~a.empty
    /\ IsMapping(a.statistics) /\ IsMapping(a.popular_routes)
    /\ IsMapping(a.seasonal_trends) /\ IsMapping(a.price_trends)
    /\ IsMapping(a.demand_patterns)
    /\ a.statistics.price_change.t \in {"absent", "str"}
    /\ a.statistics.demand_score.t \in {"absent", "int"}
    /\ a.popular_routes.bookings.t \in {"absent", "list"}
    /\ a.seasonal_trends.demand.t \in {"absent", "list"}

KeyValues ==
    { NoneV, StrV(<<>>), StrV(PLACEHOLDER_KEY), StrV(Chars(20, "k")),
      StrV(Chars(21, "k")), StrV(Chars(51, "k")) }

----------------------------------------------------------------------------
(* generate_insights, one step per position of the call *)

\* a Python value that is no DataFrame: None, a list
NotATable(kind) == [t |-> kind, columns |-> {}, rows |-> <<>>]

NoInsights == [t |-> "none", list |-> <<>>]

Init ==
    /\ ScraperConstructed
    /\ \E arg \in KeyValues, env \in KeyValues : openai_api_key = InitKey(arg, env)
    /\ max_retries = 3
    /\ timeout = 30
    /\ json_error_is_request_exception \in BOOLEAN
    /\ pc = "idle"
    /\ market_analysis = NonDict("none", TRUE)
    /\ attempt = 0
    /\ requests = 0
    /\ responses = <<>>
    /\ sleeps = <<>>
    /\ ai_insights = NoInsights
    /\ raised = FALSE
    /\ returned_at = 0
    /\ ret = Return(<<>>)
    /\ data_in = NonDict("none", TRUE)
    /\ insights_in = <<>>
    /\ flight_data = NotATable("none")
    /\ processed_data = NotATable("none")
    /\ now_month = 1

\* lines 42-57 up to the first request: validation, configuration, prompt
GenerateInsights(a) ==
    /\ UNCHANGED scraper_vars
    /\ pc = "idle"
    /\ market_analysis' = a
    /\ attempt' = 0
    /\ requests' = 0
    /\ responses' = <<>>
    /\ sleeps' = <<>>
    /\ ai_insights' = NoInsights
    /\ raised' = FALSE
    /\ returned_at' = 0
    /\ ret' = Return(<<>>)
    /\ pc' = IF InvalidAnalysis(a) THEN "fallback"
             ELSE IF _is_openai_configured(openai_api_key) /\ ~PromptRaises(a)
                  THEN "remote" ELSE "rule"
    /\ UNCHANGED <<flight_data, processed_data, now_month,
                   openai_api_key, max_retries, timeout, json_error_is_request_exception,
                   data_in, insights_in>>

\* mutant: an empty list of parsed insights is returned to the caller
AfterRemote_EmptyAccepted(ai) ==
    /\ ai_insights' = ai
    /\ IF ai.t = "list"
       THEN pc' = "done" /\ ret' = Return(ai.list) /\ returned_at' = 53
       ELSE pc' = "rule" /\ UNCHANGED <<ret, returned_at>>

\* _generate_ai_insights returns ai to line 50; lines 51-57 follow
AfterRemote(ai) ==
    /\ ai_insights' = ai
    /\ IF ai.t = "list" /\ ai.list # <<>>
       THEN pc' = "done" /\ ret' = Return(ai.list) /\ returned_at' = 53
       ELSE pc' = "rule" /\ UNCHANGED <<ret, returned_at>>

\* mutant: one iteration too many
InRange_Inclusive(i, n) == i <= n

\* for attempt in range(self.max_retries)
InRange(i, n) == i < n

\* mutant: the delay is taken after the last attempt too
NextAttempt_SleepOnLast ==
    /\ sleeps' = Append(sleeps, 2 ^ attempt)
    /\ attempt' = attempt + 1
    /\ IF InRange(attempt + 1, max_retries)
       THEN UNCHANGED <<pc, ai_insights, ret, returned_at>>
       ELSE AfterRemote(NoInsights)

\* the end of one iteration that did not leave the loop (lines 118-122, 127-131)
NextAttempt ==
    /\ sleeps' = IF attempt < max_retries - 1 THEN Append(sleeps, 2 ^ attempt) ELSE sleeps
    /\ attempt' = attempt + 1
    /\ IF InRange(attempt + 1, max_retries)
       THEN UNCHANGED <<pc, ai_insights, ret, returned_at>>
       ELSE AfterRemote(NoInsights)

\* mutant: every status other than 200 is retried
Outcome_RetryAnyStatus(r, json_is_request_exception) ==
    IF r.kind = "http" /\ r.status = 200
    THEN IF r.body = "text" THEN "return"
         ELSE IF r.body = "badjson" /\ json_is_request_exception THEN "retry"
         ELSE "except"
    ELSE "retry"

\* the branch of lines 114-131 a response takes: "return" the parsed text,
\* "retry" (next iteration), "break" (line 125), or "except" (line 135)
Outcome(r, json_is_request_exception) ==
    IF r.kind = "http"
    THEN IF r.status = 200
         THEN IF r.body = "text" THEN "return"
              ELSE IF r.body = "badjson" /\ json_is_request_exception THEN "retry"
              ELSE "except"
         ELSE IF r.status = 429 THEN "retry"
         ELSE "break"
    ELSE "retry"

\* one iteration of the loop of lines 105-131
SendRequest(r) ==
    /\ UNCHANGED scraper_vars
    /\ pc = "remote"
    /\ InRange(attempt, max_retries)
    /\ requests' = requests + 1
    /\ responses' = Append(responses, r)
    /\ LET o == Outcome(r, json_error_is_request_exception)
       IN  IF o = "return"
           THEN AfterRemote([t |-> "list", list |-> _parse_ai_insights(r.text)])
                /\ UNCHANGED <<attempt, sleeps>>
           ELSE IF o = "retry"
           THEN NextAttempt
           ELSE AfterRemote(NoInsights) /\ UNCHANGED <<attempt, sleeps>>
    /\ UNCHANGED <<flight_data, processed_data, now_month,
                   openai_api_key, max_retries, timeout, json_error_is_request_exception,
                   market_analysis, raised, data_in, insights_in>>

\* line 57, and the handler of line 59 when the synthesis raises
RuleBased ==
    /\ UNCHANGED scraper_vars
    /\ pc = "rule"
    /\ LET r == _generate_rule_based_insights(market_analysis)
       IN  IF r.raise
           THEN pc' = "fallback" /\ raised' = TRUE /\ UNCHANGED <<ret, returned_at>>
           ELSE pc' = "done" /\ ret' = r /\ returned_at' = 57 /\ UNCHANGED raised
    /\ UNCHANGED <<flight_data, processed_data, now_month,
                   openai_api_key, max_retries, timeout, json_error_is_request_exception,
                   market_analysis, attempt, requests, responses, sleeps, ai_insights,
                   data_in, insights_in>>

Months == 1..12

\* the return of line 46 or of line 61, in the month datetime.now() gives
Fallback(current_month) ==
    /\ UNCHANGED scraper_vars
    /\ pc = "fallback"
    /\ ret' = Return(_generate_fallback_insights(current_month))
    /\ returned_at' = IF raised THEN 61 ELSE 46
    /\ pc' = "done"
    /\ UNCHANGED <<flight_data, processed_data, now_month,
                   openai_api_key, max_retries, timeout, json_error_is_request_exception,
                   market_analysis, attempt, requests, responses, sleeps, ai_insights,
                   raised, data_in, insights_in>>

\* the caller has the returned list; the locals of the call are gone
Finish ==
    /\ UNCHANGED scraper_vars
    /\ pc = "done"
    /\ pc' = "idle"
    /\ market_analysis' = NonDict("none", TRUE)
    /\ attempt' = 0
    /\ requests' = 0
    /\ responses' = <<>>
    /\ sleeps' = <<>>
    /\ ai_insights' = NoInsights
    /\ raised' = FALSE
    /\ returned_at' = 0
    /\ ret' = Return(<<>>)
    /\ UNCHANGED <<flight_data, processed_data, now_month,
                   openai_api_key, max_retries, timeout, json_error_is_request_exception,
                   data_in, insights_in>>

Next ==
    \/ \E a \in Analyses : GenerateInsights(a)
    \/ \E r \in Responses : SendRequest(r)
    \/ RuleBased
    \/ \E m \in Months : Fallback(m)
    \/ Finish

Spec == Init /\ [][Next]_vars

\* each requests.post returns or times out, and the interpreter runs the call on
FairSpec == Spec /\ WF_vars(Next)

----------------------------------------------------------------------------
(* Properties of generate_insights *)

\* the analysis is None, empty or no dict
Rejected(a) == a.t # "dict" \/ a.empty

\* the key is present, is not the placeholder and has more than 20 characters
KeyUsable ==
    /\ openai_api_key.t = "str"
    /\ openai_api_key.s # PLACEHOLDER_KEY
    /\ Len(openai_api_key.s) > 20

IsFallbackList(l) == \E m \in Months : l = _generate_fallback_insights(m)

LastResponse == responses[Len(responses)]

\* C1: a call whose analysis is missing, empty or not a mapping sends no
\* request and returns exactly the 4 fallback insights, whatever the key is.
C1_InvalidAnalysisGivesFallback ==
    (pc # "idle" /\ Rejected(market_analysis)) =>
        /\ requests = 0
        /\ pc \in {"fallback", "done"}
        /\ pc = "done" =>
              /\ returned_at = 46
              /\ ~ret.raise
              /\ Len(ret.list) = 4
              /\ IsFallbackList(ret.list)

C1_Witness ==
    /\ pc = "done"
    /\ market_analysis.t = "list" /\ ~market_analysis.empty
    /\ KeyUsable
    /\ IsFallbackList(ret.list)

\* C2: a request is sent only with a key that is present, is not the
\* placeholder and is longer than 20 characters.
C2_RequestOnlyWithUsableKey == requests > 0 => KeyUsable

C2_Witness == requests > 0 /\ Len(openai_api_key.s) = 21

\* C3: one call sends at most 3 requests, whatever the backend answers.
C3_AtMostThreeRequests == requests <= 3 /\ Len(responses) = requests

C3_Witness ==
    /\ requests = 3
    /\ responses[1].status = 429
    /\ responses[2].kind = "Timeout"
    /\ responses[3].status = 200

\* the last request of the call was answered with a status other than 200 and 429
OtherStatusSeen ==
    /\ responses # <<>>
    /\ LastResponse.kind = "http"
    /\ LastResponse.status \notin {200, 429}

\* C4: after a response whose status is neither 200 nor 429 the call sends no
\* further request, on any attempt number, and goes on with the rule-based
\* synthesis.
C4_OtherStatusEndsRemote ==
    /\ [](OtherStatusSeen =>
            /\ pc \in {"rule", "fallback", "done"}
            /\ ai_insights = NoInsights
            /\ (pc = "done" => returned_at \in {57, 61})
            /\ (pc = "fallback" => raised))
    /\ [][OtherStatusSeen => (requests' = requests \/ (pc = "done" /\ pc' = "idle"))]_vars
    /\ [][(OtherStatusSeen' /\ requests' = requests + 1) => pc' = "rule"]_vars

C4_Witness ==
    /\ OtherStatusSeen
    /\ Len(responses) = 2
    /\ pc = "done"
    /\ returned_at = 57

\* C29: within one remote call the first HTTP 200 response ends the attempt
\* loop: no request is issued after it, whatever its payload is.
C29_FirstOkEndsLoop ==
    \A i \in 1..Len(responses) :
        (responses[i].kind = "http" /\ responses[i].status = 200) => i = Len(responses)

\* the delays of a call whose i-th request (attempt i - 1) got rs[i], when a
\* delay of 2^attempt follows each rate-limited response (each rate-limited
\* or failed request) that another attempt follows
RateLimited(r) == r.kind = "http" /\ r.status = 429
RequestException(r, json_is_request_exception) ==
    \/ r.kind # "http"
    \/ r.kind = "http" /\ r.status = 200 /\ r.body = "badjson" /\ json_is_request_exception
RECURSIVE DelaysAfter429(_, _)
DelaysAfter429(rs, i) ==
    IF i > Len(rs) THEN <<>>
    ELSE (IF RateLimited(rs[i]) /\ i - 1 < max_retries - 1 THEN <<2 ^ (i - 1)>> ELSE <<>>)
         \o DelaysAfter429(rs, i + 1)
RECURSIVE DelaysAfterRetry(_, _)
DelaysAfterRetry(rs, i) ==
    IF i > Len(rs) THEN <<>>
    ELSE (IF (RateLimited(rs[i]) \/ RequestException(rs[i], json_error_is_request_exception))
             /\ i - 1 < max_retries - 1
          THEN <<2 ^ (i - 1)>> ELSE <<>>)
         \o DelaysAfterRetry(rs, i + 1)

\* C23 as stated: within one remote call a backoff delay is inserted only
\* after an HTTP 429 response, and it is 2^attempt seconds for the 0-based
\* attempt number; after a transport-level failure or any other outcome the
\* next attempt follows without a delay.
C23_Original == sleeps = DelaysAfter429(responses, 1)

\* C23 as amended: the delay of 2^attempt seconds is inserted after an HTTP
\* 429 response and after a request that raised a RequestException, each time
\* when another attempt remains; no other outcome is followed by a delay.
C23_BackoffAfterRetry == sleeps = DelaysAfterRetry(responses, 1)

C23_Witness ==
    /\ Len(responses) = 3
    /\ RateLimited(responses[1])
    /\ responses[2].kind # "http"
    /\ RateLimited(responses[3])
    /\ sleeps = <<1, 2>>

\* the remote path gave the caller a non-empty list of insights
RemoteSucceeded ==
    /\ responses # <<>>
    /\ LastResponse.kind = "http" /\ LastResponse.status = 200
    /\ LastResponse.body = "text"
    /\ _parse_ai_insights(LastResponse.text) # <<>>

\* C5: with a well-formed analysis, when the remote path fails (no usable
\* key, attempts used up, a status other than 200, a 200 response that parses
\* to no insight or has no usable body) the call returns exactly the
\* rule-based insights of that analysis: never the fallback, never an empty
\* list.
C5_RemoteFailureGivesRuleBased ==
    (pc = "done" /\ WellFormed(market_analysis) /\ ~RemoteSucceeded) =>
        /\ returned_at = 57
        /\ ~ret.raise
        /\ ret.list # <<>>
        /\ ret = _generate_rule_based_insights(market_analysis)

C5_Witness ==
    /\ pc = "done"
    /\ WellFormed(market_analysis)
    /\ requests = 1
    /\ LastResponse.status = 200 /\ LastResponse.body = "text"
    /\ _parse_ai_insights(LastResponse.text) = <<>>
    /\ returned_at = 57

\* the types the rule-based synthesis relies on: the three sections it reads
\* are mappings (or absent), the demand score is a number, and the bookings
\* and demand series are lists when they are not falsy
RuleTypesOK(a) ==
    /\ a.statistics.t \in {"absent", "dict"}
    /\ a.popular_routes.t \in {"absent", "dict"}
    /\ a.seasonal_trends.t \in {"absent", "dict"}
    /\ a.statistics.demand_score.t \in {"absent", "int"}
    /\ Truthy(a.popular_routes.bookings) => a.popular_routes.bookings.t = "list"
    /\ Truthy(a.seasonal_trends.demand) => a.seasonal_trends.demand.t = "list"

C7_RuleBasedOrder ==
    (pc = "done" /\ ~KeyUsable /\ WellFormed(market_analysis)) =>
        /\ requests = 0
        /\ Len(ret.list) = 4
        /\ ret.list[1].title = "Price Trend Analysis"
        /\ ret.list[2].title = "Demand Assessment"
        /\ ret.list[3].title \in {"Route Network Optimization", "Route Network Analysis"}
        /\ ret.list[4].title \in {"Seasonal Strategy & Growth", "Strategic Growth Opportunities"}
        /\ (/\ market_analysis.statistics.price_change.t = "str"
            /\ HasChar(market_analysis.statistics.price_change.s, "+")) =>
              /\ ret.list[1].content.text[1] = "Market prices have increased by "
              /\ ret.list[1].content.args[1] = market_analysis.statistics.price_change.s

C7_Witness ==
    /\ pc = "done"
    /\ ~KeyUsable
    /\ market_analysis.statistics.price_change = StrV(<<"+", "8", ".", "0", "%">>)
    /\ market_analysis.statistics.demand_score = IntV(76)
    /\ Len(ret.list) = 4
    /\ ret.list[1].content.args[1] = <<"+", "8", ".", "0", "%">>

\* C8: every call reaches Done when each request returns or times out; it
\* sends at most 3 requests, never raises, returns at most 4 insights in
\* the order they were generated, and sends no request once the rule-based
\* synthesis or the fallback has started.
C8_CallTerminates ==
    /\ (pc # "idle") ~> (pc = "done")
    /\ [](requests <= 3)
    /\ [](pc = "done" =>
            /\ ~ret.raise
            /\ Len(ret.list) <= 4
            /\ returned_at = 53 => ret.list = ai_insights.list
            /\ returned_at = 57 => ret = _generate_rule_based_insights(market_analysis))
    /\ [][(pc \in {"rule", "fallback", "done"}) => (requests' <= requests)]_vars

C8_Witness ==
    /\ pc = "done"
    /\ requests = 3
    /\ returned_at = 53
    /\ Len(ret.list) = 4
    /\ Len(SplitLines(LastResponse.text)) = 10

----------------------------------------------------------------------------
(* get_market_sentiment *)

PriceTrend(price_change) ==
    IF HasChar(Str(price_change), "+") THEN "positive"
    ELSE IF HasChar(Str(price_change), "-") THEN "negative"
    ELSE "stable"

\* lines 372-381
Sentiment(demand_score, price_trend) ==
    IF demand_score > 70 /\ price_trend = "positive"
    THEN "Bullish - Strong demand with rising prices"
    ELSE IF demand_score > 60 /\ price_trend = "stable"
    THEN "Optimistic - Stable demand with controlled pricing"
    ELSE IF demand_score < 40 /\ price_trend = "negative"
    THEN "Bearish - Weak demand with falling prices"
    ELSE IF demand_score < 50
    THEN "Cautious - Below-average demand conditions"
    ELSE "Neutral - Balanced market conditions"

\* mutant: the below-50 check comes before the Bearish check
get_market_sentiment_CautiousFirst(data) ==
    IF data.t # "dict" \/ ~IsMapping(data.statistics)
    THEN "Neutral - Market analysis in progress"
    ELSE LET demand_score == Get(data.statistics.demand_score, IntV(50))
             price_trend == PriceTrend(Get(data.statistics.price_change, StrV(<<"+", "0", "%">>)))
         IN  IF ~IsNumber(demand_score)
             THEN "Neutral - Market analysis in progress"
             ELSE IF demand_score.n > 70 /\ price_trend = "positive"
             THEN "Bullish - Strong demand with rising prices"
             ELSE IF demand_score.n > 60 /\ price_trend = "stable"
             THEN "Optimistic - Stable demand with controlled pricing"
             ELSE IF demand_score.n < 50
             THEN "Cautious - Below-average demand conditions"
             ELSE IF demand_score.n < 40 /\ price_trend = "negative"
             THEN "Bearish - Weak demand with falling prices"
             ELSE "Neutral - Balanced market conditions"

\* mutant: the handler of line 383 catches only the AttributeError of a
\* missing .get, the TypeError of the comparison leaves the function
get_market_sentiment_TypeErrorEscapes(data) ==
    IF data.t # "dict" \/ ~IsMapping(data.statistics)
    THEN "Neutral - Market analysis in progress"
    ELSE LET demand_score == Get(data.statistics.demand_score, IntV(50))
             price_change == Get(data.statistics.price_change, StrV(<<"+", "0", "%">>))
         IN  IF ~IsNumber(demand_score)
             THEN "TypeError"
             ELSE Sentiment(demand_score.n, PriceTrend(price_change))

\* an exception (data or statistics without .get, a demand score that cannot
\* be ordered against 70) is caught at line 383
get_market_sentiment(data) ==
    IF data.t # "dict" \/ ~IsMapping(data.statistics)
    THEN "Neutral - Market analysis in progress"
    ELSE LET demand_score == Get(data.statistics.demand_score, IntV(50))
             price_change == Get(data.statistics.price_change, StrV(<<"+", "0", "%">>))
         IN  IF ~IsNumber(demand_score)
             THEN "Neutral - Market analysis in progress"
             ELSE Sentiment(demand_score.n, PriceTrend(price_change))

MaxDemand == 100

SentimentPriceChanges ==
    { AbsentV, StrV(<<"+", "5", "%">>), StrV(<<"+", "2", "%">>),
      StrV(<<"-", "3", ".", "2", "%">>), StrV(<<"0", ".", "0", "%">>),
      StrV(<<"+", "0", ".", "0", "%">>), IntV(5), IntV(-3) }

SentimentInputs ==
    { Analysis("dict", FALSE, Stats("dict", p, d, AbsentV, AbsentV),
               Routes("absent", AbsentV), Seasonal("absent", AbsentV),
               Plain("absent"), Plain("absent")) :
        p \in SentimentPriceChanges,
        d \in {IntV(n) : n \in 0..MaxDemand} \cup {AbsentV, NoneV, StrV(<<"8", "0">>)} }
    \cup InvalidAnalyses
    \cup { Analysis("dict", FALSE, st, Routes("absent", AbsentV), Seasonal("absent", AbsentV),
                    Plain("absent"), Plain("absent")) :
             st \in {NoStats, Stats("none", AbsentV, AbsentV, AbsentV, AbsentV)} }

InitSentiment ==
    /\ ScraperConstructed
    /\ openai_api_key = InitKey(NoneV, NoneV)
    /\ max_retries = 3
    /\ timeout = 30
    /\ json_error_is_request_exception = TRUE
    /\ pc = "idle"
    /\ market_analysis = NonDict("none", TRUE)
    /\ attempt = 0
    /\ requests = 0
    /\ responses = <<>>
    /\ sleeps = <<>>
    /\ ai_insights = NoInsights
    /\ raised = FALSE
    /\ returned_at = 0
    /\ ret = ""
    /\ data_in \in SentimentInputs
    /\ insights_in = <<>>
    /\ flight_data = NotATable("none")
    /\ processed_data = NotATable("none")
    /\ now_month = 1

GetMarketSentiment ==
    /\ UNCHANGED scraper_vars
    /\ pc = "idle"
    /\ ret' = get_market_sentiment(data_in)
    /\ pc' = "done"
    /\ UNCHANGED <<flight_data, processed_data, now_month,
                   openai_api_key, max_retries, timeout, json_error_is_request_exception,
                   market_analysis, attempt, requests, responses, sleeps, ai_insights,
                   raised, returned_at, data_in, insights_in>>

NextSentiment == GetMarketSentiment

SpecSentiment == InitSentiment /\ [][NextSentiment]_vars

\* the sign the price change string carries
Rising(s) == HasChar(s, "+")
Falling(s) == ~HasChar(s, "+") /\ HasChar(s, "-")
Stable(s) == ~HasChar(s, "+") /\ ~HasChar(s, "-")

\* C10: the sentiment is decided by the demand score and the sign of the
\* price change, by the checks in this order: demand>70 and rising is
\* Bullish, demand>60 and stable is Optimistic, demand<40 and falling is
\* Bearish, demand<50 is Cautious, otherwise Neutral; 75 with "+5%" is
\* Bullish and 45 with "+2%" is Cautious.
C10_SentimentTable ==
    (/\ pc = "done"
     /\ data_in.t = "dict" /\ data_in.statistics.t = "dict"
     /\ data_in.statistics.demand_score.t = "int"
     /\ data_in.statistics.price_change.t = "str") =>
        LET d == data_in.statistics.demand_score.n
            s == data_in.statistics.price_change.s
        IN  /\ (d > 70 /\ Rising(s)) => ret = "Bullish - Strong demand with rising prices"
            /\ (~(d > 70 /\ Rising(s)) /\ d > 60 /\ Stable(s)) =>
                  ret = "Optimistic - Stable demand with controlled pricing"
            /\ (~(d > 70 /\ Rising(s)) /\ ~(d > 60 /\ Stable(s)) /\ d < 40 /\ Falling(s)) =>
                  ret = "Bearish - Weak demand with falling prices"
            /\ (~(d > 70 /\ Rising(s)) /\ ~(d > 60 /\ Stable(s)) /\ ~(d < 40 /\ Falling(s))
                /\ d < 50) =>
                  ret = "Cautious - Below-average demand conditions"
            /\ (~(d > 70 /\ Rising(s)) /\ ~(d > 60 /\ Stable(s)) /\ ~(d < 40 /\ Falling(s))
                /\ ~(d < 50)) =>
                  ret = "Neutral - Balanced market conditions"
            /\ (d = 75 /\ s = <<"+", "5", "%">>) =>
                  ret = "Bullish - Strong demand with rising prices"
            /\ (d = 45 /\ s = <<"+", "2", "%">>) =>
                  ret = "Cautious - Below-average demand conditions"

C10_Witness ==
    /\ pc = "done"
    /\ data_in.statistics.demand_score = IntV(45)
    /\ data_in.statistics.price_change = StrV(<<"+", "2", "%">>)
    /\ ret = "Cautious - Below-average demand conditions"

\* the label a returned sentiment string starts with
SentimentLabel(r) ==
    CASE r = "Bullish - Strong demand with rising prices" -> "Bullish"
      [] r = "Optimistic - Stable demand with controlled pricing" -> "Optimistic"
      [] r = "Bearish - Weak demand with falling prices" -> "Bearish"
      [] r = "Cautious - Below-average demand conditions" -> "Cautious"
      [] r \in {"Neutral - Balanced market conditions",
                "Neutral - Market analysis in progress"} -> "Neutral"
      [] OTHER -> "no label"

\* the argument is no mapping, its statistics section is present and no
\* mapping, or its demand score is present and no number
MalformedSentimentInput(d) ==
    \/ d.t # "dict"
    \/ d.statistics.t \notin {"absent", "dict"}
    \/ /\ d.statistics.t = "dict"
       /\ d.statistics.demand_score.t \notin {"absent", "int"}

\* C11: get_market_sentiment never raises: for every input, a missing
\* analysis, a statistics section that is no mapping and a demand score that
\* is no number included, it returns one of the 5 sentiment labels, and on
\* such malformed input the label is Neutral.
C11_SentimentTotal ==
    pc = "done" =>
        /\ SentimentLabel(ret) \in {"Bullish", "Optimistic", "Bearish", "Cautious", "Neutral"}
        /\ MalformedSentimentInput(data_in) => SentimentLabel(ret) = "Neutral"

C11_Witness ==
    /\ pc = "done"
    /\ data_in.t = "dict"
    /\ data_in.statistics.t = "dict"
    /\ data_in.statistics.demand_score.t = "str"
    /\ ret = "Neutral - Market analysis in progress"

----------------------------------------------------------------------------
(* generate_recommendations *)

KW_price == <<"p", "r", "i", "c", "e">>
KW_pricing == <<"p", "r", "i", "c", "i", "n", "g">>
KW_demand == <<"d", "e", "m", "a", "n", "d">>
KW_route == <<"r", "o", "u", "t", "e">>
KW_network == <<"n", "e", "t", "w", "o", "r", "k">>
KW_seasonal == <<"s", "e", "a", "s", "o", "n", "a", "l">>

\* the themes.append calls of lines 403-410 for one lowercased content
ThemesOf(content) ==
    (IF Contains(content, KW_price) \/ Contains(content, KW_pricing)
     THEN <<"pricing">> ELSE <<>>)
    \o (IF Contains(content, KW_demand) THEN <<"demand">> ELSE <<>>)
    \o (IF Contains(content, KW_route) \/ Contains(content, KW_network)
        THEN <<"network">> ELSE <<>>)
    \o (IF Contains(content, KW_seasonal) THEN <<"seasonal">> ELSE <<>>)

\* insight.get('content', '').lower() works: the entry is a mapping whose
\* content, when present, is a str
EntryOK(insight) == insight.t = "dict" /\ insight.content.t \in {"absent", "str"}

RECURSIVE ExtractThemes(_)
ExtractThemes(insights) ==
    IF insights = <<>> THEN <<>>
    ELSE ThemesOf(Lower(Get(Head(insights).content, StrV(<<>>)).s))
         \o ExtractThemes(Tail(insights))

InSeq(x, sq) == \E i \in 1..Len(sq) : sq[i] = x

GeneralRecommendations ==
    << "Monitor competitor pricing and adjust strategies accordingly",
       "Invest in customer experience improvements to drive loyalty and premium pricing",
       "Leverage data analytics for better demand forecasting and inventory management" >>

FirstN(sq, n) == SubSeq(sq, 1, IF Len(sq) < n THEN Len(sq) ELSE n)

\* lines 412-430: the list before it is cut
AllRecommendations(themes) ==
    (IF InSeq("pricing", themes)
     THEN <<"Implement dynamic pricing algorithms to optimize revenue based on demand patterns">>
     ELSE <<>>)
    \o (IF InSeq("demand", themes)
        THEN <<"Develop targeted marketing campaigns for underperforming routes and time periods">>
        ELSE <<>>)
    \o (IF InSeq("network", themes)
        THEN <<"Conduct comprehensive route profitability analysis and consider network optimization">>
        ELSE <<>>)
    \o (IF InSeq("seasonal", themes)
        THEN <<"Create seasonal capacity plans and advance booking incentive programs">>
        ELSE <<>>)
    \o GeneralRecommendations

\* mutant: the list is returned whole
generate_recommendations_NoCut(insights) ==
    IF \E i \in 1..Len(insights) : ~EntryOK(insights[i])
    THEN Raise
    ELSE Return(AllRecommendations(ExtractThemes(insights)))

\* an entry without .get, or a content without .lower, raises to the caller
generate_recommendations(insights) ==
    IF \E i \in 1..Len(insights) : ~EntryOK(insights[i])
    THEN Raise
    ELSE Return(FirstN(AllRecommendations(ExtractThemes(insights)), 5))

Entry(t, content) == [t |-> t, content |-> content]

InsightContents ==
    { <<>>,
      <<"P", "r", "i", "c", "e", "s">>,
      <<"P", "R", "I", "C", "I", "N", "G">>,
      <<"p", "r", "i", "c">>,
      <<"D", "e", "m", "a", "n", "d">>,
      <<"r", "o", "u", "t", "e", "s">>,
      <<"N", "e", "t", "w", "o", "r", "k">>,
      <<"S", "e", "a", "s", "o", "n", "a", "l">>,
      <<"s", "e", "a", "s", "o", "n">>,
      <<"P", "r", "i", "c", "e", " ", "d", "e", "m", "a", "n", "d">>,
      <<"r", "o", "u", "t", "e", " ", "s", "e", "a", "s", "o", "n", "a", "l">> }

InsightEntries ==
    { Entry("dict", StrV(c)) : c \in InsightContents }
    \cup { Entry("dict", AbsentV), Entry("dict", NoneV), Entry("none", AbsentV) }

MaxInsights == 3

InsightLists ==
    UNION { [1..n -> InsightEntries] : n \in 0..MaxInsights }

InitRecommendations ==
    /\ ScraperConstructed
    /\ openai_api_key = InitKey(NoneV, NoneV)
    /\ max_retries = 3
    /\ timeout = 30
    /\ json_error_is_request_exception = TRUE
    /\ pc = "idle"
    /\ market_analysis = NonDict("none", TRUE)
    /\ attempt = 0
    /\ requests = 0
    /\ responses = <<>>
    /\ sleeps = <<>>
    /\ ai_insights = NoInsights
    /\ raised = FALSE
    /\ returned_at = 0
    /\ ret = Return(<<>>)
    /\ data_in = NonDict("none", TRUE)
    /\ insights_in \in InsightLists
    /\ flight_data = NotATable("none")
    /\ processed_data = NotATable("none")
    /\ now_month = 1

GenerateRecommendations ==
    /\ UNCHANGED scraper_vars
    /\ pc = "idle"
    /\ ret' = generate_recommendations(insights_in)
    /\ pc' = "done"
    /\ UNCHANGED <<flight_data, processed_data, now_month,
                   openai_api_key, max_retries, timeout, json_error_is_request_exception,
                   market_analysis, attempt, requests, responses, sleeps, ai_insights,
                   raised, returned_at, data_in, insights_in>>

NextRecommendations == GenerateRecommendations

SpecRecommendations == InitRecommendations /\ [][NextRecommendations]_vars

\* some insight content holds the keyword, whatever the case of its letters
Mentions(insights, keyword) ==
    \E i \in 1..Len(insights) :
        /\ insights[i].content.t = "str"
        /\ Contains(Lower(insights[i].content.s), keyword)

\* one recommendation per detected theme, in the order pricing, demand,
\* network, seasonal
ThemeRecommendations(insights) ==
    LET fixed == << "Implement dynamic pricing algorithms to optimize revenue based on demand patterns",
                    "Develop targeted marketing campaigns for underperforming routes and time periods",
                    "Conduct comprehensive route profitability analysis and consider network optimization",
                    "Create seasonal capacity plans and advance booking incentive programs" >>
        detected == << Mentions(insights, KW_price) \/ Mentions(insights, KW_pricing),
                       Mentions(insights, KW_demand),
                       Mentions(insights, KW_route) \/ Mentions(insights, KW_network),
                       Mentions(insights, KW_seasonal) >>
        Pick[i \in 0..4] ==
            IF i = 0 THEN <<>>
            ELSE IF detected[i] THEN Append(Pick[i - 1], fixed[i]) ELSE Pick[i - 1]
    IN  Pick[4]

\* C9: for a list of insights (mappings whose content, when present, is a
\* string) the result is the first 5 entries of the theme recommendations, in
\* the order pricing, demand, network, seasonal, followed by the 3 general
\* recommendations; it has at most 5 entries and holds all 3 general
\* recommendations when fewer than 2 themes are detected.
C9_RecommendationsCut ==
    (pc = "done" /\ \A i \in 1..Len(insights_in) : EntryOK(insights_in[i])) =>
        LET themed == ThemeRecommendations(insights_in)
            full == themed \o GeneralRecommendations
        IN  /\ ~ret.raise
            /\ Len(ret.list) <= 5
            /\ Len(ret.list) = (IF Len(full) < 5 THEN Len(full) ELSE 5)
            /\ \A i \in 1..Len(ret.list) : ret.list[i] = full[i]
            /\ Len(themed) < 2 =>
                  \A g \in 1..3 : InSeq(GeneralRecommendations[g], ret.list)

C9_Witness ==
    /\ pc = "done"
    /\ Len(insights_in) = 2
    /\ \A i \in 1..2 : EntryOK(insights_in[i])
    /\ Len(ThemeRecommendations(insights_in)) = 4
    /\ Len(ret.list) = 5
    /\ ret.list[5] = GeneralRecommendations[1]

\* C22: generate_recommendations is total: for every insight list, entries
\* without a content field, with a content that is not a string, and entries
\* that are not mappings included, it returns a recommendation list and no
\* exception reaches the caller.
C22_RecommendationsTotal ==
    (pc = "done") => (~ret.raise /\ Len(ret.list) <= 5)
----------------------------------------------------------------------------
(* MarketAnalyzer of src/data_processor.py.  A DataFrame is a set of column *)
(* names and a sequence of rows.  A cell is a record [k, n, d]: the number  *)
(* n/d ("num"), NaN, an infinity, a raw text no number can be read from, a  *)
(* date (n counts the days from Monday 1 January 2024, which is day 1), or  *)
(* "absent" where the table has no such column.                             *)

Cell(k, n, d) == [k |-> k, n |-> n, d |-> d]
Num(n, d) == Cell("num", n, d)
NaN == Cell("nan", 0, 1)
Absent == Cell("absent", 0, 1)

RECURSIVE GCD(_, _)
GCD(a, b) == IF b = 0 THEN a ELSE GCD(b, a % b)

RECURSIVE Sum(_)
Sum(s) == IF s = <<>> THEN 0 ELSE Head(s) + Sum(Tail(s))

\* the integer nearest to n/d (d > 0), a tie going to the even one
RoundDiv(n, d) ==
    LET q == n \div d
        r == n % d
    IN  IF 2 * r < d THEN q
        ELSE IF 2 * r > d THEN q + 1
        ELSE IF q % 2 = 0 THEN q ELSE q + 1

\* Series.tolist(): the elements, each computed once
tolist(s) == s \o <<>>

\* the indices of keys in ascending order of key, equal keys in input order
Order(keys) ==
    LET n == Len(keys)
        Rank(i) == Cardinality({j \in 1..n : keys[j] < keys[i] \/ (keys[j] = keys[i] /\ j < i)})
    IN  tolist([r \in 1..n |-> CHOOSE i \in 1..n : Rank(i) = r - 1])

\* the elements of a set of integers in ascending order
Sorted(S) ==
    tolist([r \in 1..Cardinality(S) |-> CHOOSE x \in S : Cardinality({y \in S : y < x}) = r - 1])

\* Series.head(n) and list[-n:]
head(s, n) == SubSeq(s, 1, IF Len(s) < n THEN Len(s) ELSE n)
tail(s, n) == SubSeq(s, (IF Len(s) < n THEN 0 ELSE Len(s) - n) + 1, Len(s))

DataFrame(columns, rows) == [t |-> "table", columns |-> columns, rows |-> rows]

\* mutant: only a table without columns counts as empty
empty_NoColumns(df) == df.columns = {}

\* DataFrame.empty: an axis of length 0
empty(df) == df.columns = {} \/ df.rows = <<>>

\* .dt.month, .dt.isocalendar().week and .dt.weekday of a day of 2024 or
\* 2025, day 367 being 1 January 2025; MonthStarts is the first day of each
\* month of the leap year 2024, and week 1 of 2025 begins on day 365
MonthStarts == <<1, 32, 61, 92, 122, 153, 183, 214, 245, 275, 306, 336>>
month(day) ==
    LET d == IF day <= 366 THEN day
             ELSE IF day - 366 >= 60 THEN day - 366 + 1 ELSE day - 366
    IN  Cardinality({m \in 1..12 : MonthStarts[m] <= d})
week(day) == IF day <= 364 THEN ((day - 1) \div 7) + 1 ELSE ((day - 365) \div 7) + 1
weekday(day) == (day - 1) % 7
day_order == <<"Monday", "Tuesday", "Wednesday", "Thursday", "Friday", "Saturday", "Sunday">>

----------------------------------------------------------------------------
(* _clean_data *)

\* mutant: cleaned_data is the caller's table itself
copy_Alias(data) == [alias |-> TRUE, df |-> data]

\* data.copy(): writes to the copy do not reach data
copy(data) == [alias |-> FALSE, df |-> data]

\* pd.to_datetime of one cell that can be read as a date
to_datetime(c) ==
    CASE c.k = "str" -> Cell("datetime", c.n, 1)
      [] c.k = "none" -> Cell("nat", 0, 1)
      [] OTHER -> c

\* pd.to_numeric(errors='coerce') of one cell
to_numeric(c) == IF c.k = "text" THEN NaN ELSE c

\* 4 * Series.quantile(q / 4) of a sorted non-empty sequence of integers
Quantile4(s, q) ==
    LET pos == (Len(s) - 1) * q
        i == (pos \div 4) + 1
        f == pos % 4
    IN  4 * s[i] + (IF f = 0 THEN 0 ELSE f * (s[i + 1] - s[i]))

\* lines 64-73: the rows whose price is inside both bounds
RemoveOutliers(rows) ==
    IF rows = <<>> THEN rows
    ELSE LET all == tolist([i \in 1..Len(rows) |-> rows[i].price.n])
             o == Order(all)
             s == tolist([r \in 1..Len(rows) |-> all[o[r]]])
             price_q1 == Quantile4(s, 1)
             price_q3 == Quantile4(s, 3)
             price_iqr == price_q3 - price_q1
             lower_bound == 2 * price_q1 - 3 * price_iqr
             upper_bound == 2 * price_q3 + 3 * price_iqr
             lo == IF lower_bound > 8 * 50 THEN lower_bound ELSE 8 * 50
             hi == IF upper_bound < 8 * 2000 THEN upper_bound ELSE 8 * 2000
         IN  SelectSeq(rows, LAMBDA r : 8 * r.price.n >= lo /\ 8 * r.price.n <= hi)

\* line 77: bookings / capacity of one row
Divide(b, c) ==
    IF b.k # "num" \/ c.k # "num" THEN NaN
    ELSE IF c.n = 0
    THEN (IF b.n = 0 THEN NaN ELSE IF b.n > 0 THEN Cell("inf", 0, 1) ELSE Cell("ninf", 0, 1))
    ELSE Num(b.n, c.n)

\* line 78: Series.clip(0, 1) of one cell; NaN stays NaN
clip(x) ==
    CASE x.k = "nan" -> NaN
      [] x.k = "inf" -> Num(1, 1)
      [] x.k = "ninf" -> Num(0, 1)
      [] x.k = "num" /\ x.n < 0 -> Num(0, 1)
      [] x.k = "num" /\ x.n > x.d -> Num(1, 1)
      [] OTHER -> x

\* lines 52-58 on one row
Convert(r, columns) ==
    [r EXCEPT !.date = to_datetime(r.date),
              !.price = IF "price" \in columns THEN to_numeric(r.price) ELSE r.price,
              !.bookings = IF "bookings" \in columns THEN to_numeric(r.bookings) ELSE r.bookings,
              !.capacity = IF "capacity" \in columns THEN to_numeric(r.capacity) ELSE r.capacity]

\* lines 76-84 on one row
AddFields(r, columns) ==
    [r EXCEPT !.load_factor = IF {"bookings", "capacity"} \subseteq columns
                              THEN clip(Divide(r.bookings, r.capacity)) ELSE r.load_factor,
              !.day_of_week = day_order[weekday(r.date.n) + 1],
              !.month = month(r.date.n),
              !.week = week(r.date.n),
              !.is_weekend = weekday(r.date.n) \in {5, 6}]

DerivedColumns(columns) ==
    {"day_of_week", "month", "week", "is_weekend"}
    \cup (IF {"bookings", "capacity"} \subseteq columns THEN {"load_factor"} ELSE {})

\* ret is the value returned, data is the caller's table after the call
_clean_data(data) ==
    IF data.t # "table" THEN [ret |-> data, data |-> data]
    ELSE LET cleaned_data == copy(data)
             n == Len(data.rows)
             converted == [data EXCEPT !.rows = tolist([i \in 1..n |-> Convert(data.rows[i], data.columns)])]
             written == IF cleaned_data.alias THEN converted ELSE data
             kept == SelectSeq(converted.rows,
                               LAMBDA r : r.date.k = "datetime" /\ r.price.k = "num")
             inside == RemoveOutliers(kept)
         IN  IF "date" \notin data.columns \/ \E i \in 1..n : data.rows[i].date.k = "bad"
             THEN [ret |-> data, data |-> data]
             ELSE IF "price" \notin data.columns
             THEN [ret |-> written, data |-> written]
             ELSE [ret |-> DataFrame(data.columns \cup DerivedColumns(data.columns),
                                     tolist([i \in 1..Len(inside) |-> AddFields(inside[i], data.columns)])),
                   data |-> written]

----------------------------------------------------------------------------
(* Aggregates.  Lists of the analysis hold cells; a label built by an       *)
(* f-string or by strftime is the tuple of its parts.  Scalar summaries no  *)
(* list depends on (volatility, weekend_analysis, peak_periods, ...) are    *)
(* left out of the computed sections, the exceptions their computation      *)
(* raises are kept.                                                         *)

Has(data, columns) == data.t = "table" /\ columns \subseteq data.columns

Column(rows, name) == tolist([i \in 1..Len(rows) |-> rows[i][name]])

Numbers(cells) == SelectSeq(cells, LAMBDA c : c.k = "num")

FracAdd(a, b) ==
    LET n == a.n * b.d + b.n * a.d
        d == a.d * b.d
        g == GCD(IF n < 0 THEN -n ELSE n, d)
    IN  Num(n \div g, d \div g)

RECURSIVE FracSum(_)
FracSum(cells) == IF cells = <<>> THEN Num(0, 1) ELSE FracAdd(Head(cells), FracSum(Tail(cells)))

\* Series.sum() and Series.mean(): NaN cells are skipped
sum(cells) == FracSum(Numbers(cells))
mean(cells) ==
    LET nums == Numbers(cells)
        total == FracSum(nums)
    IN  IF nums = <<>> THEN NaN ELSE FracAdd(Num(0, 1), Num(total.n, total.d * Len(nums)))

\* round(x, e): e decimals
round(x, e) == IF x.k = "num" THEN Num(RoundDiv(x.n * (10 ^ e), x.d), 10 ^ e) ELSE x

\* a / b * 100 of two column sums
Percent(a, b) ==
    IF b.n = 0
    THEN (IF a.n = 0 THEN NaN ELSE IF a.n > 0 THEN Cell("inf", 0, 1) ELSE Cell("ninf", 0, 1))
    ELSE Num(a.n * b.d * 100, a.d * b.n)

\* mutant: a list of literals one value short
Ints_DropLast(s) == tolist([i \in 1..(Len(s) - 1) |-> Num(s[i], 1)])

\* a list of int literals, of literals with one decimal, with two decimals
Ints(s) == tolist([i \in 1..Len(s) |-> Num(s[i], 1)])
Tenths(s) == tolist([i \in 1..Len(s) |-> Num(s[i], 10)])
Hundredths(s) == tolist([i \in 1..Len(s) |-> Num(s[i], 100)])

\* datetime.strftime('%Y-%m-%d')
strftime(c) == Cell("ymd", c.n, 1)

\* [(datetime.now() - timedelta(days=i)).strftime('%Y-%m-%d') for i in range(7, 0, -1)]
LastSevenDays == tolist([j \in 1..7 |-> Cell("days ago", 8 - j, 1)])

\* airport and airline codes in the order groupby sorts them
Airports == <<"BNE", "MEL", "PER", "SYD">>
Airlines == <<"JQ", "QF", "TT", "VA">>
IndexOf(s, x) == CHOOSE i \in 1..Len(s) : s[i] = x
RouteKey(r) == IndexOf(Airports, r.origin) * (Len(Airports) + 1) + IndexOf(Airports, r.destination)

\* the rows of one group, and the groups' keys in ascending order
Group(rows, key(_), g) == SelectSeq(rows, LAMBDA r : key(r) = g)
Keys(rows, key(_)) == Sorted({key(rows[i]) : i \in 1..Len(rows)})

\* sort_values(ascending=False) on a column that holds the keys
Descending(s, keys) ==
    LET o == Order(tolist([i \in 1..Len(s) |-> -keys[i]]))
    IN  tolist([r \in 1..Len(s) |-> s[o[r]]])

\* lines 94-132, and the literals of lines 136-152 when a column is missing
_analyze_price_trends(data) ==
    IF Has(data, {"week", "date", "price"})
    THEN LET weeks == Keys(data.rows, LAMBDA r : r.week)
             dates == Keys(data.rows, LAMBDA r : r.date.n)
             prices(w) == Column(Group(data.rows, LAMBDA r : r.week, w), "price")
             daily(d) == Column(Group(data.rows, LAMBDA r : r.date.n, d), "price")
             weekly_prices == tolist([i \in 1..Len(weeks) |->
                 [week |-> weeks[i],
                  avg_price |-> round(mean(prices(weeks[i])), 0),
                  min_price |-> Num(SeqMin(Column(prices(weeks[i]), "n")), 1),
                  max_price |-> Num(SeqMax(Column(prices(weeks[i]), "n")), 1)]])
             daily_prices == tolist([i \in 1..Len(dates) |->
                 [date |-> Cell("datetime", dates[i], 1), price |-> mean(daily(dates[i]))]])
         IN  [weekly_trends |->
                 [labels |-> tolist([i \in 1..Len(head(weekly_prices, 8)) |-> <<"Week", weekly_prices[i].week>>]),
                  avg_prices |-> Column(head(weekly_prices, 8), "avg_price"),
                  min_prices |-> Column(head(weekly_prices, 8), "min_price"),
                  max_prices |-> Column(head(weekly_prices, 8), "max_price")],
              daily_trends |->
                 [dates |-> tail(tolist([i \in 1..Len(dates) |-> strftime(daily_prices[i].date)]), 14),
                  prices |-> tail(tolist([i \in 1..Len(dates) |-> round(daily_prices[i].price, 0)]), 14)]]
    ELSE [weekly_trends |->
             [labels |-> <<<<"Week", 1>>, <<"Week", 2>>, <<"Week", 3>>, <<"Week", 4>>>>,
              avg_prices |-> Ints(<<420, 465, 485, 510>>),
              min_prices |-> Ints(<<380, 420, 440, 460>>),
              max_prices |-> Ints(<<480, 520, 540, 580>>)],
          daily_trends |->
             [dates |-> LastSevenDays,
              prices |-> Ints(<<450, 460, 470, 480, 475, 485, 490>>)]]

\* lines 156-198, and the literals of lines 202-220 when a column is missing
\* or line 192 finds no weekday row to take with iloc[0]
_analyze_demand_patterns(data) ==
    IF /\ Has(data, {"day_of_week", "bookings", "price", "month", "is_weekend", "load_factor"})
       /\ (data.rows = <<>> \/ \E i \in 1..Len(data.rows) : ~data.rows[i].is_weekend)
    THEN LET on(day) == Group(data.rows, LAMBDA r : r.day_of_week, day)
             demand_by_day == tolist([i \in 1..7 |->
                 IF on(day_order[i]) = <<>>
                 THEN [bookings |-> Num(0, 1), price |-> Num(0, 1)]
                 ELSE [bookings |-> sum(Column(on(day_order[i]), "bookings")),
                       price |-> mean(Column(on(day_order[i]), "price"))]])
             months == Keys(data.rows, LAMBDA r : r.month)
             in(m) == Group(data.rows, LAMBDA r : r.month, m)
             monthly_demand == tolist([i \in 1..Len(months) |->
                 [month |-> months[i],
                  bookings |-> sum(Column(in(months[i]), "bookings")),
                  price |-> mean(Column(in(months[i]), "price"))]])
         IN  [daily_patterns |->
                 [labels |-> day_order,
                  bookings |-> Column(demand_by_day, "bookings"),
                  avg_prices |-> tolist([i \in 1..7 |-> round(demand_by_day[i].price, 0)])],
              monthly_patterns |->
                 [labels |-> tolist([i \in 1..Len(months) |-> <<"Month", monthly_demand[i].month>>]),
                  bookings |-> Column(monthly_demand, "bookings"),
                  avg_prices |-> tolist([i \in 1..Len(months) |-> round(monthly_demand[i].price, 0)])]]
    ELSE [daily_patterns |->
             [labels |-> <<"Monday", "Tuesday", "Wednesday", "Thursday", "Friday", "Saturday", "Sunday">>,
              bookings |-> Ints(<<850, 720, 680, 790, 1200, 1450, 1300>>),
              avg_prices |-> Ints(<<420, 410, 400, 430, 480, 520, 500>>)],
          monthly_patterns |->
             [labels |-> <<<<"Month", 1>>, <<"Month", 2>>, <<"Month", 3>>>>,
              bookings |-> Ints(<<2500, 2200, 2800>>),
              avg_prices |-> Ints(<<450, 420, 470>>)]]

\* line 237: (bookings / total_bookings * 100).round(1)
market_share(bookings, total_bookings) == round(Percent(bookings, total_bookings), 1)

\* lines 224-251, and the literals of lines 255-267 when a column is missing
_analyze_popular_routes(data) ==
    IF Has(data, {"origin", "destination", "bookings", "price", "load_factor"})
    THEN LET routes == Keys(data.rows, RouteKey)
             of(k) == Group(data.rows, RouteKey, k)
             grouped == tolist([i \in 1..Len(routes) |->
                 [route |-> <<of(routes[i])[1].origin, "-", of(routes[i])[1].destination>>,
                  bookings |-> sum(Column(of(routes[i]), "bookings")),
                  price |-> mean(Column(of(routes[i]), "price"))]])
             sorted == Descending(grouped, tolist([i \in 1..Len(routes) |-> grouped[i].bookings.n]))
             total_bookings == sum(Column(grouped, "bookings"))
             route_stats == tolist([i \in 1..Len(routes) |->
                 [route |-> sorted[i].route,
                  bookings |-> sorted[i].bookings,
                  price |-> sorted[i].price,
                  market_share |-> market_share(sorted[i].bookings, total_bookings)]])
         IN  [top_routes |->
                 [labels |-> Column(head(route_stats, 10), "route"),
                  bookings |-> Column(head(route_stats, 10), "bookings"),
                  avg_prices |-> tolist([i \in 1..Len(head(route_stats, 10)) |-> round(route_stats[i].price, 0)]),
                  market_share |-> Column(head(route_stats, 10), "market_share")],
              route_analysis |-> [total_routes |-> Len(route_stats)]]
    ELSE [top_routes |->
             [labels |-> << <<"SYD", "-", "MEL">>, <<"MEL", "-", "SYD">>, <<"SYD", "-", "BNE">>,
                            <<"BNE", "-", "SYD">>, <<"SYD", "-", "PER">>, <<"PER", "-", "SYD">> >>,
              bookings |-> Ints(<<2850, 2640, 2280, 2160, 2040, 1950>>),
              avg_prices |-> Ints(<<320, 325, 380, 375, 650, 645>>),
              market_share |-> Tenths(<<185, 172, 148, 140, 132, 127>>)],
          route_analysis |-> [total_routes |-> 24]]

month_names == <<"Jan", "Feb", "Mar", "Apr", "May", "Jun", "Jul", "Aug", "Sep", "Oct", "Nov", "Dec">>

\* lines 271-315, and the literals of lines 319-330 when a column is missing
_analyze_seasonal_trends(data) ==
    IF Has(data, {"month", "bookings", "price", "load_factor"})
    THEN LET in(m) == Group(data.rows, LAMBDA r : r.month, m)
             months == Keys(data.rows, LAMBDA r : r.month)
             overall == mean(tolist([i \in 1..Len(months) |-> mean(Column(in(months[i]), "price"))]))
             monthly_complete == tolist([m \in 1..12 |->
                 IF in(m) = <<>>
                 THEN [bookings |-> Num(0, 1), price |-> overall]
                 ELSE [bookings |-> sum(Column(in(m), "bookings")),
                       price |-> mean(Column(in(m), "price"))]])
         IN  [monthly_trends |->
                 [labels |-> month_names,
                  bookings |-> Column(monthly_complete, "bookings"),
                  prices |-> tolist([m \in 1..12 |-> round(monthly_complete[m].price, 0)])]]
    ELSE [monthly_trends |->
             [labels |-> <<"Jan", "Feb", "Mar", "Apr", "May", "Jun", "Jul", "Aug", "Sep", "Oct", "Nov", "Dec">>,
              bookings |-> Ints(<<2550, 2340, 2460, 2250, 2100, 1950, 2700, 2550, 2250, 2400, 2640, 2850>>),
              prices |-> Ints(<<520, 480, 460, 440, 420, 400, 450, 460, 440, 460, 500, 540>>)]]

\* lines 350-355
airline_names(code) ==
    CASE code = "QF" -> "Qantas" [] code = "JQ" -> "Jetstar" [] code = "VA" -> "Virgin Australia"
      [] code = "TT" -> "Tigerair" [] code = "3K" -> "Jetstar Asia"
      [] code = "SQ" -> "Singapore Airlines" [] OTHER -> code

\* a key that sorts a column of percentages: infinity above, NaN below every number
SortKey(x) ==
    CASE x.k = "num" -> x.n [] x.k = "inf" -> 1000000 [] x.k = "ninf" -> -1000000
      [] OTHER -> -2000000

\* lines 334-367, and the literals of lines 371-381 when a column is missing
_analyze_airline_performance(data) ==
    IF ~Has(data, {"airline"})
    THEN [error |-> "Airline data not available"]
    ELSE IF Has(data, {"bookings", "price", "load_factor"})
    THEN LET airlines == Keys(data.rows, LAMBDA r : IndexOf(Airlines, r.airline))
             of(a) == Group(data.rows, LAMBDA r : IndexOf(Airlines, r.airline), a)
             total_bookings == sum(Column(data.rows, "bookings"))
             grouped == tolist([i \in 1..Len(airlines) |->
                 [airline_name |-> airline_names(Airlines[airlines[i]]),
                  market_share |-> market_share(sum(Column(of(airlines[i]), "bookings")), total_bookings),
                  price |-> round(mean(Column(of(airlines[i]), "price")), 0),
                  load_factor |-> round(mean(Column(of(airlines[i]), "load_factor")), 2)]])
             airline_stats == Descending(grouped,
                                  tolist([i \in 1..Len(airlines) |-> SortKey(grouped[i].market_share)]))
         IN  [market_share |->
                 [labels |-> Column(head(airline_stats, 6), "airline_name"),
                  shares |-> Column(head(airline_stats, 6), "market_share")],
              performance_metrics |->
                 [airlines |-> Column(head(airline_stats, 6), "airline_name"),
                  avg_prices |-> Column(head(airline_stats, 6), "price"),
                  load_factors |-> Column(head(airline_stats, 6), "load_factor")]]
    ELSE [market_share |->
             [labels |-> <<"Qantas", "Jetstar", "Virgin Australia", "Tigerair">>,
              shares |-> Tenths(<<325, 283, 247, 145>>)],
          performance_metrics |->
             [airlines |-> <<"Qantas", "Jetstar", "Virgin Australia", "Tigerair">>,
              avg_prices |-> Ints(<<520, 380, 450, 350>>),
              load_factors |-> Hundredths(<<82, 78, 75, 73>>)]]

\* the date column holds datetimes, so that the .dt accessor exists
IsDatetime(data) ==
    Has(data, {"date"}) /\ \A i \in 1..Len(data.rows) : data.rows[i].date.k = "datetime"

\* no cell of the column is a text, so that the column can be summed
IsNumeric(data, name) == \A i \in 1..Len(data.rows) : data.rows[i][name].k # "text"

\* lines 385-420, and the literals of lines 424-434 when a column is missing
_analyze_capacity_utilization(data) ==
    IF ~Has(data, {"capacity"}) \/ ~Has(data, {"bookings"})
    THEN [error |-> "Capacity data not available"]
    ELSE IF /\ IsNumeric(data, "capacity") /\ IsNumeric(data, "bookings")
            /\ IsDatetime(data) /\ Has(data, {"origin", "destination"})
    THEN LET total_capacity == sum(Column(data.rows, "capacity"))
             total_bookings == sum(Column(data.rows, "bookings"))
             dates == Keys(data.rows, LAMBDA r : r.date.n)
             on(d) == Group(data.rows, LAMBDA r : r.date.n, d)
             routes == Keys(data.rows, RouteKey)
             of(k) == Group(data.rows, RouteKey, k)
             utilization(rows) ==
                 round(Percent(sum(Column(rows, "bookings")), sum(Column(rows, "capacity"))), 1)
             daily_util == tolist([i \in 1..Len(dates) |->
                 [date |-> strftime(Cell("datetime", dates[i], 1)),
                  utilization |-> utilization(on(dates[i]))]])
             grouped == tolist([i \in 1..Len(routes) |->
                 [route |-> <<of(routes[i])[1].origin, "-", of(routes[i])[1].destination>>,
                  utilization |-> utilization(of(routes[i]))]])
             route_util == Descending(grouped,
                               tolist([i \in 1..Len(routes) |-> SortKey(grouped[i].utilization)]))
         IN  [overall_utilization |->
                 IF total_capacity.n > 0
                 THEN round(Percent(total_bookings, total_capacity), 1) ELSE Num(0, 1),
              daily_utilization |->
                 [dates |-> tail(Column(daily_util, "date"), 14),
                  utilization |-> tail(Column(daily_util, "utilization"), 14)],
              route_utilization |->
                 [routes |-> Column(head(route_util, 10), "route"),
                  utilization |-> Column(head(route_util, 10), "utilization")]]
    ELSE [overall_utilization |-> Num(785, 10),
          daily_utilization |->
             [dates |-> LastSevenDays,
              utilization |-> Tenths(<<752, 785, 821, 798, 853, 887, 832>>)],
          route_utilization |->
             [routes |-> << <<"SYD", "-", "MEL">>, <<"MEL", "-", "SYD">>,
                            <<"SYD", "-", "BNE">>, <<"BNE", "-", "SYD">> >>,
              utilization |-> Tenths(<<855, 832, 798, 773>>)]]

\* int(x): the fraction cut towards zero
int(x) == IF x.n < 0 THEN -((-x.n) \div x.d) ELSE x.n \div x.d

\* f"{a / b * 100:+.1f}%" of two sums a and b
SignedPercent(a, b) ==
    IF b = 0
    THEN (IF a = 0 THEN <<"+", "n", "a", "n", "%">>
          ELSE IF a > 0 THEN <<"+", "i", "n", "f", "%">> ELSE <<"-", "i", "n", "f", "%">>)
    ELSE LET tenths == RoundDiv((IF a < 0 THEN -a ELSE a) * 1000, IF b < 0 THEN -b ELSE b)
         IN  <<IF a # 0 /\ (a < 0) # (b < 0) THEN "-" ELSE "+">>
             \o NatStr(tenths \div 10) \o <<".">> \o NatStr(tenths % 10) \o <<"%">>

\* DataFrame.sort_values('date')
sort_values(rows) ==
    LET o == Order(tolist([i \in 1..Len(rows) |-> rows[i].date.n]))
    IN  tolist([r \in 1..Len(rows) |-> rows[o[r]]])

\* lines 459-470
price_change(data) ==
    IF Len(data.rows) > 1
    THEN LET recent_data == sort_values(data.rows)
             first_week == head(recent_data, Len(recent_data) \div 2)
             last_week == tail(recent_data, Len(recent_data) \div 2)
         IN  IF first_week # <<>> /\ last_week # <<>>
             THEN SignedPercent(sum(Column(last_week, "price")).n - sum(Column(first_week, "price")).n,
                                sum(Column(first_week, "price")).n)
             ELSE <<"0", ".", "0", "%">>
    ELSE <<"0", ".", "0", "%">>

\* a < b for two fractions with positive denominators
Less(a, b) == a.n * b.d < b.n * a.d

\* the sample variance of the numbers nums, whose mean is m
SampleVariance(nums, m) ==
    IF Len(nums) < 2 THEN NaN
    ELSE LET total == FracSum(tolist([i \in 1..Len(nums) |->
                        Num((nums[i].n * m.d - m.n * nums[i].d) * (nums[i].n * m.d - m.n * nums[i].d),
                            (nums[i].d * m.d) * (nums[i].d * m.d))]))
         IN  FracAdd(Num(0, 1), Num(total.n, total.d * (Len(nums) - 1)))

\* Series.std() squared: the sample variance, NaN for fewer than 2 numbers
variance(cells) == SampleVariance(Numbers(cells), mean(cells))

\* a * b of two fractions, cancelling before the products are taken
FracMul(a, b) ==
    LET g1 == GCD(IF a.n < 0 THEN -a.n ELSE a.n, b.d)
        g2 == GCD(IF b.n < 0 THEN -b.n ELSE b.n, a.d)
    IN  IF a.n = 0 \/ b.n = 0 THEN Num(0, 1)
        ELSE Num((a.n \div g1) * (b.n \div g2), (a.d \div g2) * (b.d \div g1))

\* sqrt(v) / m < bound, for a positive mean m: the squares are compared; a
\* comparison with NaN is false
RatioBelow(v, m, bound) ==
    /\ v.k = "num" /\ m.k = "num" /\ m.n > 0
    /\ Less(FracMul(FracMul(v, Num(m.d, m.n)), Num(m.d, m.n)), FracMul(bound, bound))

\* std / mean < bound
CVBelow(cells, bound) == RatioBelow(variance(cells), mean(cells), bound)

\* lines 660-664: the points for the price volatility
VolatilityPoints(prices) ==
    IF CVBelow(prices, Num(2, 10)) THEN 2 ELSE IF CVBelow(prices, Num(3, 10)) THEN 1 ELSE 0

\* lines 669-672: the points for the average load factor
LoadFactorPoints(avg_load_factor) ==
    IF avg_load_factor.k = "num" /\ Less(Num(8, 10), avg_load_factor) THEN 2
    ELSE IF avg_load_factor.k = "num" /\ Less(Num(7, 10), avg_load_factor) THEN 1 ELSE 0

\* lines 682-689
HealthLabel(health_score) ==
    IF health_score >= 5 THEN "Excellent"
    ELSE IF health_score >= 3 THEN "Good"
    ELSE IF health_score >= 1 THEN "Fair"
    ELSE "Poor"

\* lines 676-679: the points for the number of routes
DiversityPoints(unique_routes) ==
    IF unique_routes > 10 THEN 2 ELSE IF unique_routes > 5 THEN 1 ELSE 0

\* mutant: 10 routes already count as more than 10 (line 676)
_calculate_market_health_From10(data) ==
    IF ~Has(data, {"price", "origin", "destination"}) \/ ~IsNumeric(data, "price")
    THEN "Good"
    ELSE HealthLabel(VolatilityPoints(Column(data.rows, "price"))
                     + LoadFactorPoints(IF Has(data, {"load_factor"})
                                        THEN mean(Column(data.rows, "load_factor")) ELSE NaN)
                     + DiversityPoints(Len(Keys(data.rows, RouteKey)) + 1))

\* lines 656-689, and 'Good' of line 693 when a column is missing
_calculate_market_health(data) ==
    IF ~Has(data, {"price", "origin", "destination"}) \/ ~IsNumeric(data, "price")
    THEN "Good"
    ELSE HealthLabel(VolatilityPoints(Column(data.rows, "price"))
                     + LoadFactorPoints(IF Has(data, {"load_factor"})
                                        THEN mean(Column(data.rows, "load_factor")) ELSE NaN)
                     + DiversityPoints(Len(Keys(data.rows, RouteKey))))

\* lines 438-475, and the literals of lines 479-498 when a column is missing
\* or int() meets the NaN that the mean of no number is
_calculate_comprehensive_statistics(data) ==
    IF /\ Has(data, {"price", "date", "origin", "destination"})
       /\ IsNumeric(data, "price") /\ mean(Column(data.rows, "price")).k = "num"
       /\ Has(data, {"bookings"}) =>
             IsNumeric(data, "bookings") /\ mean(Column(data.rows, "bookings")).k = "num"
       /\ Has(data, {"capacity"}) => IsNumeric(data, "capacity")
       /\ IsDatetime(data)
    THEN [total_flights |-> Len(data.rows),
          avg_price |-> int(mean(Column(data.rows, "price"))),
          min_price |-> SeqMin(Column(Column(data.rows, "price"), "n")),
          max_price |-> SeqMax(Column(Column(data.rows, "price"), "n")),
          total_bookings |-> IF Has(data, {"bookings"})
                             THEN int(sum(Column(data.rows, "bookings"))) ELSE 0,
          total_capacity |-> IF Has(data, {"capacity"})
                             THEN int(sum(Column(data.rows, "capacity"))) ELSE 0,
          unique_routes |-> Len(Keys(data.rows, RouteKey)),
          price_change |-> price_change(data),
          market_health |-> _calculate_market_health(data)]
    ELSE [total_flights |-> 0,
          avg_price |-> 485,
          min_price |-> 280,
          max_price |-> 850,
          total_bookings |-> 15000,
          total_capacity |-> 19500,
          unique_routes |-> 24,
          price_change |-> <<"+", "1", "2", ".", "3", "%">>,
          market_health |-> "Good"]

\* lines 640-648: the least-squares slope of the points (0, y1), (1, y2), ...
_calculate_trend(series) ==
    IF Len(series) < 2 THEN Num(0, 1)
    ELSE LET n == Len(series)
             sx == Sum(tolist([i \in 1..n |-> i - 1]))
             sxx == Sum(tolist([i \in 1..n |-> (i - 1) * (i - 1)]))
             sy == Sum(tolist([i \in 1..n |-> series[i].n]))
             sxy == Sum(tolist([i \in 1..n |-> (i - 1) * series[i].n]))
         IN  FracAdd(Num(0, 1), Num(n * sxy - sx * sy, n * sxx - sx * sx))

\* lines 514-517, in tenths
seasonal_factors == <<12, 11, 10, 9, 9, 8, 9, 9, 9, 10, 11, 13>>

\* lines 502-531, and the literals of lines 535-545 when a column is missing
\* or line 525 reads trend, which line 509 binds only for more than 7 rows
_generate_forecasts(data, current_month) ==
    IF /\ Has(data, {"date", "price"}) /\ IsNumeric(data, "price")
       /\ Len(data.rows) > 7
       /\ mean(Column(data.rows, "price")).k = "num"
    THEN LET prices == Column(sort_values(data.rows), "price")
             recent_prices == tail(prices, 7)
             trend == _calculate_trend(prices)
             with_trend == FracAdd(mean(recent_prices), Num(7 * trend.n, trend.d))
             forecast_price == Num(with_trend.n * seasonal_factors[current_month], with_trend.d * 10)
         IN  [price_forecast |->
                 [next_week |-> int(forecast_price),
                  confidence |-> "Medium",
                  trend |-> IF trend.n > 0 THEN "increasing"
                            ELSE IF trend.n < 0 THEN "decreasing" ELSE "stable"],
              demand_forecast |->
                 [next_week |-> IF current_month \in {12, 1, 6, 7} THEN "High" ELSE "Medium",
                  seasonal_factor |-> Num(seasonal_factors[current_month], 10)]]
    ELSE [price_forecast |-> [next_week |-> 495, confidence |-> "Medium", trend |-> "stable"],
          demand_forecast |-> [next_week |-> "Medium", seasonal_factor |-> Num(10, 10)]]

\* lines 551-592 (type and title of each insight), and the one insight of
\* lines 596-602 when a column is missing
_generate_market_insights(data) ==
    IF Has(data, {"price", "origin", "destination"}) /\ IsNumeric(data, "price")
    THEN LET n == Len(data.rows)
             x == Column(Numbers(Column(data.rows, "price")), "n")
             square == tolist([i \in 1..Len(x) |-> x[i] * x[i]])
             volatile == Len(x) > 1
                         /\ Len(x) * Sum(square) - Sum(x) * Sum(x) > 10000 * Len(x) * (Len(x) - 1)
             avg_load_factor == IF Has(data, {"load_factor"})
                                THEN mean(Column(data.rows, "load_factor")) ELSE NaN
             weekend == mean(Column(SelectSeq(data.rows, LAMBDA r : r.is_weekend), "price"))
             workday == mean(Column(SelectSeq(data.rows, LAMBDA r : ~r.is_weekend), "price"))
             routes == Keys(data.rows, RouteKey)
             most == SeqMax(tolist([i \in 1..Len(routes) |-> Len(Group(data.rows, RouteKey, routes[i]))]))
         IN  (IF volatile
              THEN <<[type |-> "warning", title |-> "High Price Volatility"]>> ELSE <<>>)
             \o (IF avg_load_factor.k = "num" /\ 20 * avg_load_factor.n > 17 * avg_load_factor.d
                 THEN <<[type |-> "opportunity", title |-> "High Demand Opportunity"]>> ELSE <<>>)
             \o (IF /\ Has(data, {"is_weekend"}) /\ weekend.k = "num" /\ workday.k = "num"
                    /\ 10 * weekend.n * workday.d > 11 * workday.n * weekend.d
                 THEN <<[type |-> "info", title |-> "Weekend Premium"]>> ELSE <<>>)
             \o (IF routes # <<>> /\ 10 * most > 3 * n
                 THEN <<[type |-> "info", title |-> "Route Concentration"]>> ELSE <<>>)
    ELSE <<[type |-> "info", title |-> "Market Analysis"]>>

\* lines 697-824
_get_default_analysis ==
    [price_trends |->
        [weekly_trends |->
            [labels |-> << <<"Week", 1>>, <<"Week", 2>>, <<"Week", 3>>,
                           <<"Week", 4>>, <<"Week", 5>>, <<"Week", 6>> >>,
             avg_prices |-> Ints(<<420, 465, 485, 510, 495, 485>>),
             min_prices |-> Ints(<<380, 420, 440, 460, 450, 440>>),
             max_prices |-> Ints(<<480, 520, 540, 580, 560, 540>>)],
         daily_trends |->
            [dates |-> LastSevenDays,
             prices |-> Ints(<<450, 460, 470, 480, 475, 485, 490>>)],
         trend_analysis |->
            [direction |-> "increasing", volatility |-> Num(255, 10), trend_strength |-> Num(3, 10)]],
     demand_patterns |->
        [daily_patterns |->
            [labels |-> <<"Monday", "Tuesday", "Wednesday", "Thursday", "Friday", "Saturday", "Sunday">>,
             bookings |-> Ints(<<650, 590, 800, 810, 1200, 1350, 1100>>),
             avg_prices |-> Ints(<<420, 410, 400, 430, 480, 520, 500>>)],
         monthly_patterns |->
            [labels |-> <<<<"Month", 1>>, <<"Month", 2>>, <<"Month", 3>>>>,
             bookings |-> Ints(<<2500, 2200, 2800>>),
             avg_prices |-> Ints(<<450, 420, 470>>)],
         weekend_analysis |->
            [weekday_bookings |-> 750, weekend_bookings |-> 1200,
             weekday_price |-> 430, weekend_price |-> 480],
         peak_periods |-> [high_demand |-> "Friday-Sunday", low_demand |-> "Tuesday-Wednesday"]],
     popular_routes |->
        [top_routes |->
            [labels |-> << <<"SYD", "-", "MEL">>, <<"MEL", "-", "SYD">>, <<"SYD", "-", "BNE">>,
                           <<"BNE", "-", "SYD">>, <<"SYD", "-", "PER">>, <<"PER", "-", "SYD">> >>,
             bookings |-> Ints(<<2850, 2640, 2280, 2160, 2040, 1950>>),
             avg_prices |-> Ints(<<320, 325, 380, 375, 650, 645>>),
             market_share |-> Tenths(<<185, 172, 148, 140, 132, 127>>)],
         route_analysis |->
            [total_routes |-> 24, top_route |-> <<"SYD", "-", "MEL">>,
             avg_load_factor |-> Num(78, 100)]],
     seasonal_trends |->
        [monthly_trends |->
            [labels |-> <<"Jan", "Feb", "Mar", "Apr", "May", "Jun", "Jul", "Aug", "Sep", "Oct", "Nov", "Dec">>,
             bookings |-> Ints(<<2550, 2340, 2460, 2250, 2100, 1950, 2700, 2550, 2250, 2400, 2640, 2850>>),
             prices |-> Ints(<<520, 480, 460, 440, 420, 400, 450, 460, 440, 460, 500, 540>>)],
         seasonal_analysis |->
            [peak_season |-> "Summer", low_season |-> "Winter", price_variation |-> Num(452, 10)]],
     airline_performance |->
        [market_share |->
            [labels |-> <<"Qantas", "Jetstar", "Virgin Australia", "Tigerair">>,
             shares |-> Tenths(<<325, 283, 247, 145>>)],
         performance_metrics |->
            [airlines |-> <<"Qantas", "Jetstar", "Virgin Australia", "Tigerair">>,
             avg_prices |-> Ints(<<520, 380, 450, 350>>),
             load_factors |-> Hundredths(<<82, 78, 75, 73>>)]],
     capacity_utilization |->
        [overall_utilization |-> Num(785, 10),
         daily_utilization |->
            [dates |-> LastSevenDays,
             utilization |-> Tenths(<<752, 785, 821, 798, 853, 887, 832>>)],
         route_utilization |->
            [routes |-> << <<"SYD", "-", "MEL">>, <<"MEL", "-", "SYD">>,
                           <<"SYD", "-", "BNE">>, <<"BNE", "-", "SYD">> >>,
             utilization |-> Tenths(<<855, 832, 798, 773>>)]],
     statistics |->
        [total_flights |-> 450,
         avg_price |-> 485,
         min_price |-> 280,
         max_price |-> 850,
         total_bookings |-> 15000,
         total_capacity |-> 19500,
         unique_routes |-> 24,
         price_change |-> <<"+", "1", "2", ".", "3", "%">>,
          market_health |-> "Good"],
     forecasting |->
        [price_forecast |-> [next_week |-> 495, confidence |-> "Medium", trend |-> "stable"],
         demand_forecast |-> [next_week |-> "Medium", seasonal_factor |-> Num(10, 10)]],
     market_insights |->
        <<[type |-> "info", title |-> "Market Stability"],
          [type |-> "opportunity", title |-> "Weekend Premium"]>>]

\* mutant: a sub-analysis without its own handler, so that the handler of
\* line 41 answers a missing airline column with the whole default analysis
Analysis9_Aborts(data, current_month) ==
    IF ~Has(data, {"airline"}) THEN _get_default_analysis
    ELSE [price_trends |-> _analyze_price_trends(data),
          demand_patterns |-> _analyze_demand_patterns(data),
          popular_routes |-> _analyze_popular_routes(data),
          seasonal_trends |-> _analyze_seasonal_trends(data),
          airline_performance |-> _analyze_airline_performance(data),
          capacity_utilization |-> _analyze_capacity_utilization(data),
          statistics |-> _calculate_comprehensive_statistics(data),
          forecasting |-> _generate_forecasts(data, current_month),
          market_insights |-> _generate_market_insights(data)]

\* lines 26-36 on the table _clean_data returned
Analysis9(data, current_month) ==
    [price_trends |-> _analyze_price_trends(data),
     demand_patterns |-> _analyze_demand_patterns(data),
     popular_routes |-> _analyze_popular_routes(data),
     seasonal_trends |-> _analyze_seasonal_trends(data),
     airline_performance |-> _analyze_airline_performance(data),
     capacity_utilization |-> _analyze_capacity_utilization(data),
     statistics |-> _calculate_comprehensive_statistics(data),
     forecasting |-> _generate_forecasts(data, current_month),
     market_insights |-> _generate_market_insights(data)]

\* the outcome of one call: raise, the value and the line of the return
\* statement, self.processed_data and the caller's table after the call
Outcome9(raise, value, line, processed, data) ==
    [raise |-> raise, ret |-> value, line |-> line, processed_data |-> processed, data |-> data]

\* mutant: no handler at line 41
analyze_market_trends_NoHandler(self_processed_data, data, current_month) ==
    IF data.t # "table"
    THEN Outcome9(TRUE, [error |-> "AttributeError"], 19, self_processed_data, data)
    ELSE IF empty(data)
    THEN Outcome9(FALSE, _get_default_analysis, 20, self_processed_data, data)
    ELSE LET cleaned == _clean_data(data)
         IN  Outcome9(FALSE, Analysis9(cleaned.ret, current_month), 39, cleaned.ret, cleaned.data)

\* mutant: line 38 keeps the table as it was before cleaning
analyze_market_trends_StoresRaw(self_processed_data, data, current_month) ==
    IF data.t # "table"
    THEN Outcome9(FALSE, _get_default_analysis, 43, self_processed_data, data)
    ELSE IF empty(data)
    THEN Outcome9(FALSE, _get_default_analysis, 20, self_processed_data, data)
    ELSE LET cleaned == _clean_data(data)
         IN  Outcome9(FALSE, Analysis9(cleaned.ret, current_month), 39, data, cleaned.data)

\* lines 18-43: a value without .empty raises at line 19 and the handler of
\* line 41 returns the default analysis; every sub-analysis has a handler of
\* its own, so nothing else raises
analyze_market_trends(self_processed_data, data, current_month) ==
    IF data.t # "table"
    THEN Outcome9(FALSE, _get_default_analysis, 43, self_processed_data, data)
    ELSE IF empty(data)
    THEN Outcome9(FALSE, _get_default_analysis, 20, self_processed_data, data)
    ELSE LET cleaned == _clean_data(data)
         IN  Outcome9(FALSE, Analysis9(cleaned.ret, current_month), 39, cleaned.ret, cleaned.data)

----------------------------------------------------------------------------
(* The tables the analyzer is given *)

RawColumns == {"date", "origin", "destination", "airline", "price", "bookings", "capacity"}

Row(date, origin, destination, airline, price, bookings, capacity) ==
    [date |-> date, origin |-> origin, destination |-> destination, airline |-> airline,
     price |-> price, bookings |-> bookings, capacity |-> capacity,
     load_factor |-> Absent, day_of_week |-> "", month |-> 0, week |-> 0, is_weekend |-> FALSE]

MaxRows == 2
MaxSeries == 15

\* short tables whose dates and prices may be unreadable, one column possibly missing
DateCells == {Cell("str", 6, 1), Cell("bad", 0, 1), Cell("none", 0, 1)}
PriceCells == {Num(400, 1), Cell("text", 0, 1)}
DefectTables ==
    { DataFrame(RawColumns \ missing, rows) :
        missing \in {{}, {"date"}, {"price"}, {"bookings"}, {"capacity"}, {"airline"}, {"origin"}},
        rows \in UNION { [1..n -> { Row(d, "SYD", "MEL", "QF", p, Num(3, 1), Num(4, 1)) :
                                      d \in DateCells, p \in PriceCells }] : n \in 0..MaxRows } }

\* short tables whose bookings and capacity may be zero, too large or unreadable
SeatCells == {Num(0, 1), Num(3, 1), Num(5, 1), Cell("text", 0, 1)}
SeatTables ==
    { DataFrame(RawColumns, rows) :
        rows \in UNION { [1..n -> { Row(Cell("str", 5, 1), "SYD", "MEL", "QF", Num(400, 1), b, c) :
                                      b \in SeatCells, c \in SeatCells \ {Num(3, 1)} }] : n \in 1..MaxRows } }

\* n rows, one every 1, 7 or 31 days from Tuesday 2 January 2024 on; a shape
\* is the days between rows, the prices, the bookings, the number of routes
SeriesShapes ==
    { <<1, "step", "even", 1>>, <<1, "rise", "skew", 3>>, <<1, "flat", "none", 12>>,
      <<7, "flat", "even", 12>>, <<7, "spike", "skew", 3>>,
      <<31, "rise", "even", 1>>, <<31, "step", "skew", 3>> }
SeriesRow(i, n, shape) ==
    Row(Cell("str", 2 + (i - 1) * shape[1], 1),
        Airports[(((i - 1) % shape[4]) \div 3) + 1],
        Airports[(((((i - 1) % shape[4]) \div 3) + ((i - 1) % 3) + 1) % 4) + 1],
        Airlines[(i % 4) + 1],
        Num(CASE shape[2] = "flat" -> 400
              [] shape[2] = "step" -> (IF i <= n \div 2 THEN 400 ELSE 460)
              [] shape[2] = "rise" -> 400 + 10 * i
              [] shape[2] = "spike" -> (IF i = n THEN 3000 ELSE 400), 1),
        Num(CASE shape[3] = "even" -> 3
              [] shape[3] = "skew" -> (IF i % 3 = 0 THEN 4 ELSE 1)
              [] shape[3] = "none" -> 0, 1),
        Num(4, 1))
SeriesTables ==
    { DataFrame(RawColumns, [i \in 1..n |-> SeriesRow(i, n, shape)]) :
        n \in 1..MaxSeries, shape \in SeriesShapes }

\* the longest series without one of the optional columns
OptionalColumns == {"airline", "bookings", "capacity"}
SparseTables ==
    { DataFrame(RawColumns \ {c}, tolist([i \in 1..MaxSeries |-> SeriesRow(i, MaxSeries, shape)])) :
        c \in OptionalColumns, shape \in SeriesShapes }

FlightTables ==
    {NotATable("none"), NotATable("list")} \cup DefectTables \cup SeatTables \cup SeriesTables
    \cup SparseTables

----------------------------------------------------------------------------
(* One call of the analyzer per behaviour *)

InitAnalyzer ==
    /\ ScraperConstructed
    /\ openai_api_key = InitKey(NoneV, NoneV)
    /\ max_retries = 3
    /\ timeout = 30
    /\ json_error_is_request_exception = TRUE
    /\ pc = "idle"
    /\ market_analysis = NonDict("none", TRUE)
    /\ attempt = 0
    /\ requests = 0
    /\ responses = <<>>
    /\ sleeps = <<>>
    /\ ai_insights = NoInsights
    /\ raised = FALSE
    /\ returned_at = 0
    /\ ret = NotATable("none")
    /\ data_in = NotATable("none")
    /\ insights_in = <<>>
    /\ flight_data \in FlightTables
    /\ processed_data = NotATable("none")
    /\ now_month \in Months

\* analyzer._clean_data(flight_data)
CleanData ==
    /\ UNCHANGED scraper_vars
    /\ pc = "idle"
    /\ LET r == _clean_data(flight_data)
       IN  /\ ret' = r.ret
           /\ flight_data' = r.data
    /\ data_in' = flight_data
    /\ pc' = "cleaned"
    /\ UNCHANGED <<openai_api_key, max_retries, timeout, json_error_is_request_exception,
                   market_analysis, attempt, requests, responses, sleeps, ai_insights,
                   raised, returned_at, insights_in, processed_data, now_month>>

\* analyzer.analyze_market_trends(flight_data), as line 37 of src/main.py calls it
AnalyzeMarketTrends ==
    /\ UNCHANGED scraper_vars
    /\ pc = "idle"
    /\ LET r == analyze_market_trends(processed_data, flight_data, now_month)
       IN  /\ ret' = r.ret
           /\ raised' = r.raise
           /\ returned_at' = r.line
           /\ processed_data' = r.processed_data
           /\ flight_data' = r.data
    /\ data_in' = flight_data
    /\ pc' = "analyzed"
    /\ UNCHANGED <<openai_api_key, max_retries, timeout, json_error_is_request_exception,
                   market_analysis, attempt, requests, responses, sleeps, ai_insights,
                   insights_in, now_month>>

NextAnalyzer == CleanData \/ AnalyzeMarketTrends

SpecAnalyzer == InitAnalyzer /\ [][NextAnalyzer]_vars

----------------------------------------------------------------------------
(* Properties of the analyzer *)

Sections ==
    {"price_trends", "demand_patterns", "popular_routes", "seasonal_trends",
     "airline_performance", "capacity_utilization", "statistics", "forecasting",
     "market_insights"}

\* a table without rows or without columns
IsEmptyTable(d) == d.t = "table" /\ (d.rows = <<>> \/ d.columns = {})

\* C12: analyze_market_trends on an empty table returns exactly the fixed
\* default analysis, its nine named sub-sections present and none of them
\* empty, from the return of line 20: cleaning and the aggregates have not
\* run, the table is as it was and processed_data has not been assigned.
C12_EmptyGivesDefault ==
    (pc = "analyzed" /\ IsEmptyTable(data_in)) =>
        /\ ~raised
        /\ ret = _get_default_analysis
        /\ DOMAIN ret = Sections
        /\ \A s \in Sections : DOMAIN ret[s] # {}
        /\ returned_at = 20
        /\ processed_data = NotATable("none")
        /\ flight_data = data_in

C12_Witness ==
    /\ pc = "analyzed"
    /\ data_in.t = "table" /\ data_in.rows = <<>> /\ "date" \in data_in.columns
    /\ returned_at = 20
    /\ ret.statistics.total_flights = 450
    /\ Len(ret.market_insights) = 2

\* C13: analyze_market_trends is total: for an empty table, a table that
\* lacks a required column, a value that is no table and a table whose rows
\* cleaning removes altogether, it returns without raising an object that
\* holds all nine named sub-sections.
C13_AnalysisTotal ==
    pc = "analyzed" => (~raised /\ DOMAIN ret = Sections)

C13_Witness ==
    /\ pc = "analyzed"
    /\ data_in.t = "table" /\ data_in.rows # <<>>
    /\ processed_data.t = "table" /\ "week" \in processed_data.columns
    /\ processed_data.rows = <<>>
    /\ ~raised /\ DOMAIN ret = Sections

\* every value list of the sub-section is as long as its list of labels
SameLength(sub, labels, values) == \A v \in values : Len(sub[v]) = Len(sub[labels])

\* C14: in every analysis analyze_market_trends returns (computed, with the
\* literals of a sub-section that failed, or the default), each list of
\* labels, dates or routes is as long as every value list paired with it in
\* the same sub-section.
C14_ListsPaired ==
    pc = "analyzed" =>
        /\ SameLength(ret.price_trends.weekly_trends, "labels",
                      {"avg_prices", "min_prices", "max_prices"})
        /\ SameLength(ret.price_trends.daily_trends, "dates", {"prices"})
        /\ SameLength(ret.demand_patterns.daily_patterns, "labels", {"bookings", "avg_prices"})
        /\ SameLength(ret.demand_patterns.monthly_patterns, "labels", {"bookings", "avg_prices"})
        /\ SameLength(ret.popular_routes.top_routes, "labels",
                      {"bookings", "avg_prices", "market_share"})
        /\ SameLength(ret.seasonal_trends.monthly_trends, "labels", {"bookings", "prices"})
        /\ "error" \notin DOMAIN ret.airline_performance =>
              /\ SameLength(ret.airline_performance.market_share, "labels", {"shares"})
              /\ SameLength(ret.airline_performance.performance_metrics, "airlines",
                            {"avg_prices", "load_factors"})
        /\ "error" \notin DOMAIN ret.capacity_utilization =>
              /\ SameLength(ret.capacity_utilization.daily_utilization, "dates", {"utilization"})
              /\ SameLength(ret.capacity_utilization.route_utilization, "routes", {"utilization"})

\* a computed analysis whose weekly lists were cut to 8 of 9 weeks and more,
\* next to the 3 months of the demand literals
C14_Witness ==
    /\ pc = "analyzed"
    /\ returned_at = 39
    /\ Len(processed_data.rows) > 8
    /\ Len(ret.price_trends.weekly_trends.labels) = 8
    /\ Len(ret.price_trends.weekly_trends.max_prices) = 8
    /\ Len(ret.popular_routes.top_routes.labels) = 10
    /\ Len(ret.popular_routes.top_routes.market_share) = 10

\* C15: in every analysis analyze_market_trends returns, the default one
\* included, every weekday series has exactly 7 entries in the order Monday
\* to Sunday and every monthly series (demand_patterns.monthly_patterns and
\* seasonal_trends.monthly_trends) has exactly 12 entries, a weekday or a
\* month without data being filled with zero and not left out.
C15_CalendarSeries ==
    pc = "analyzed" =>
        /\ ret.demand_patterns.daily_patterns.labels = day_order
        /\ Len(ret.demand_patterns.daily_patterns.bookings) = 7
        /\ Len(ret.demand_patterns.daily_patterns.avg_prices) = 7
        /\ Len(ret.demand_patterns.monthly_patterns.labels) = 12
        /\ Len(ret.demand_patterns.monthly_patterns.bookings) = 12
        /\ Len(ret.seasonal_trends.monthly_trends.labels) = 12
        /\ Len(ret.seasonal_trends.monthly_trends.bookings) = 12

\* a number of the interval [0, 1]
InUnitInterval(x) == x.k = "num" /\ 0 <= x.n /\ x.n <= x.d

\* C16: in every table _clean_data returns with a bookings and a capacity
\* column, the load_factor of every record lies in [0, 1], also where the
\* capacity is 0 or bookings or capacity could not be read as a number.
C16_LoadFactorInUnitInterval ==
    (pc = "cleaned" /\ ret.t = "table"
     /\ {"bookings", "capacity", "load_factor"} \subseteq ret.columns) =>
        \A i \in 1..Len(ret.rows) : InUnitInterval(ret.rows[i].load_factor)

\* line 52 or line 61 cannot be carried out on the argument
CleaningFails(d) ==
    \/ d.t # "table"
    \/ "date" \notin d.columns
    \/ \E i \in 1..Len(d.rows) : d.rows[i].date.k = "bad"
    \/ "price" \notin d.columns

\* C17: _clean_data never modifies the table it is given, and when a step
\* fails (no date column, a date that cannot be read, no price column) what
\* it returns is the argument as it was given, without any derived column.
C17_CleanKeepsInput ==
    pc = "cleaned" =>
        /\ flight_data = data_in
        /\ CleaningFails(data_in) =>
              /\ ret = data_in
              /\ ret.columns \cap {"load_factor", "day_of_week", "month", "week", "is_weekend"} = {}

\* the date column was converted on the copy before line 61 failed
C17_Witness ==
    /\ pc = "cleaned"
    /\ data_in.t = "table" /\ data_in.rows # <<>>
    /\ "date" \in data_in.columns /\ "price" \notin data_in.columns
    /\ \A i \in 1..Len(data_in.rows) : data_in.rows[i].date.k = "str"
    /\ ret = data_in
    /\ flight_data = data_in

\* C18: for every cleaned table (with every column, and bookings to share),
\* the market_share values listed in popular_routes.top_routes, each the
\* route's bookings / total bookings x 100 rounded to one decimal for the 10
\* routes with most bookings, sum to at most 100.
C18_MarketShareAtMost100 ==
    (pc = "analyzed" /\ returned_at = 39
     /\ (RawColumns \cup {"load_factor"}) \subseteq processed_data.columns
     /\ sum(Column(processed_data.rows, "bookings")).n > 0) =>
        LET shares == ret.popular_routes.top_routes.market_share
        IN  /\ \A i \in 1..Len(shares) : shares[i].k = "num" /\ shares[i].d = 10
            /\ Sum(Column(shares, "n")) <= 100 * 10

\* C19: statistics.price_change compares the mean price of the second half
\* of the cleaned records, taken in date order, with the mean price of the
\* first half, as a signed percentage with one decimal (400 then 460 gives
\* "+15.0%"), and is "0.0%" for a table of fewer than 2 records.
C19_PriceChange ==
    (pc = "analyzed" /\ returned_at = 39
     /\ (RawColumns \cup {"week"}) \subseteq processed_data.columns) =>
        LET rows == sort_values(processed_data.rows)
            half == Len(rows) \div 2
            first == Sum(Column(Column(head(rows, half), "price"), "n"))
            second == Sum(Column(Column(tail(rows, half), "price"), "n"))
        IN  /\ Len(rows) < 2 => ret.statistics.price_change = <<"0", ".", "0", "%">>
            /\ Len(rows) >= 2 => ret.statistics.price_change = SignedPercent(second - first, first)
            /\ (Len(rows) >= 2 /\ first = 400 * half /\ second = 460 * half) =>
                  ret.statistics.price_change = <<"+", "1", "5", ".", "0", "%">>

\* C20: the forecast next-week price is the mean of the last 7 prices in
\* date order, plus 7 times the slope of the linear trend only when the
\* table has more than 7 records, times the seasonal factor of the current
\* month, for a table of any size: 7 records or fewer give the mean times
\* the seasonal factor.
C20_ForecastEverySize ==
    (pc = "analyzed" /\ returned_at = 39
     /\ (RawColumns \cup {"week"}) \subseteq processed_data.columns
     /\ processed_data.rows # <<>>) =>
        LET prices == Column(sort_values(processed_data.rows), "price")
            base == mean(tail(prices, 7))
            slope == _calculate_trend(prices)
            adjusted == IF Len(prices) > 7 THEN FracAdd(base, Num(7 * slope.n, slope.d)) ELSE base
        IN  ret.forecasting.price_forecast.next_week =
                int(Num(adjusted.n * seasonal_factors[now_month], adjusted.d * 10))

\* the analysis of the same rows with every column present
Restored == DataFrame(RawColumns, data_in.rows)
FullAnalysis == analyze_market_trends(NotATable("none"), Restored, now_month).ret

\* the literals each sub-analysis returns from its handler
NoColumns == DataFrame({}, <<>>)
StaticDefaults ==
    [price_trends |-> _analyze_price_trends(NoColumns),
     demand_patterns |-> _analyze_demand_patterns(NoColumns),
     popular_routes |-> _analyze_popular_routes(NoColumns),
     seasonal_trends |-> _analyze_seasonal_trends(NoColumns),
     airline_performance |-> _analyze_airline_performance(DataFrame({"airline"}, <<>>)),
     capacity_utilization |-> _analyze_capacity_utilization(DataFrame({"bookings", "capacity"}, <<>>)),
     statistics |-> _calculate_comprehensive_statistics(NoColumns),
     forecasting |-> _generate_forecasts(NoColumns, 1),
     market_insights |-> _generate_market_insights(NoColumns)]

\* the sub-sections that read a column, bookings and capacity also through
\* the load_factor that cleaning derives from them
Reads(column) ==
    IF column = "airline" THEN {"airline_performance"}
    ELSE {"demand_patterns", "popular_routes", "seasonal_trends", "airline_performance",
          "capacity_utilization", "statistics", "market_insights"}

MissingColumn == CHOOSE c \in OptionalColumns : data_in.columns = RawColumns \ {c}
AnalyzedWithout(columns) ==
    /\ pc = "analyzed" /\ returned_at = 39
    /\ \E c \in columns : data_in.columns = RawColumns \ {c}

----------------------------------------------------------------------------
(* Any number of calls of one analyzer *)

CallTables ==
    {NotATable("none"), NotATable("list"), DataFrame(RawColumns, <<>>), DataFrame({}, <<>>)}
    \cup { t \in DefectTables : Len(t.rows) = 1 /\ t.columns \in {RawColumns, RawColumns \ {"price"}} }
    \cup { t \in SeriesTables : Len(t.rows) \in {2, MaxSeries} }

InitCalls ==
    /\ ScraperConstructed
    /\ openai_api_key = InitKey(NoneV, NoneV)
    /\ max_retries = 3
    /\ timeout = 30
    /\ json_error_is_request_exception = TRUE
    /\ pc = "idle"
    /\ market_analysis = NonDict("none", TRUE)
    /\ attempt = 0
    /\ requests = 0
    /\ responses = <<>>
    /\ sleeps = <<>>
    /\ ai_insights = NoInsights
    /\ raised = FALSE
    /\ returned_at = 0
    /\ ret = NotATable("none")
    /\ data_in = NotATable("none")
    /\ insights_in = <<>>
    /\ flight_data = NotATable("none")
    /\ processed_data = NotATable("none")
    /\ now_month \in {1, 7}

\* analyzer.analyze_market_trends(t), on the analyzer earlier calls have used
CallAnalyzer(t) ==
    /\ UNCHANGED scraper_vars
    /\ pc \in {"idle", "analyzed"}
    /\ LET r == analyze_market_trends(processed_data, t, now_month)
       IN  /\ ret' = r.ret
           /\ raised' = r.raise
           /\ returned_at' = r.line
           /\ processed_data' = r.processed_data
           /\ flight_data' = r.data
    /\ data_in' = t
    /\ pc' = "analyzed"
    /\ UNCHANGED <<openai_api_key, max_retries, timeout, json_error_is_request_exception,
                   market_analysis, attempt, requests, responses, sleeps, ai_insights,
                   insights_in, now_month>>

NextCalls == \E t \in CallTables : CallAnalyzer(t)

SpecCalls == InitCalls /\ [][NextCalls]_vars

\* the call that has just returned gave the default analysis
ReturnedDefault == ret = _get_default_analysis

\* C26: after analyze_market_trends completes on the normal path,
\* processed_data holds the cleaned table of that request; when the call
\* returns the default analysis (empty input or outer failure),
\* processed_data is left as it was, so after any sequence of calls it holds
\* the cleaned table of the most recent call that did not return the default.
C26_ProcessedData ==
    /\ []((pc = "analyzed" /\ data_in.t = "table" /\ data_in.rows # <<>>) =>
            (processed_data = _clean_data(data_in).ret /\ returned_at = 39))
    /\ []((pc = "analyzed" /\ (data_in.t # "table" \/ data_in.rows = <<>>)) =>
            (ReturnedDefault /\ returned_at \in {20, 43}))
    /\ [][(data_in'.t # "table" \/ data_in'.rows = <<>>) => processed_data' = processed_data]_vars

\* a cleaned table is kept through a call with an empty table and a call
\* with None
C26_Witness ==
    /\ pc = "analyzed"
    /\ returned_at = 43
    /\ processed_data.t = "table"
    /\ Len(processed_data.rows) = MaxSeries
    /\ "week" \in processed_data.columns

----------------------------------------------------------------------------
(* The /api/market-data handler on the analyzer and the insight generator  *)
(* of the module, with no credential in the environment                    *)

\* the tables scraper.get_flight_data hands to the handler
ServiceTables ==
    {DataFrame({}, <<>>)}
    \cup { t \in SeriesTables : Len(t.rows) \in {1, MaxSeries} }
    \cup { t \in SparseTables : "bookings" \notin t.columns }

\* the dictionary analyze_market_trends returned, as generate_insights reads
\* it: stats.get(...), popular_routes.get('bookings'), seasonal_trends.get('demand')
ToAnalysis(a) ==
    Analysis("dict", FALSE,
             Stats("dict",
                   IF "price_change" \in DOMAIN a.statistics
                   THEN StrV(a.statistics.price_change) ELSE AbsentV,
                   IF "demand_score" \in DOMAIN a.statistics
                   THEN IntV(a.statistics.demand_score) ELSE AbsentV,
                   IF "avg_price" \in DOMAIN a.statistics
                   THEN IntV(a.statistics.avg_price) ELSE AbsentV,
                   IF "total_routes" \in DOMAIN a.statistics
                   THEN IntV(a.statistics.total_routes) ELSE AbsentV),
             Routes("dict",
                    IF "bookings" \in DOMAIN a.popular_routes
                    THEN ListV(a.popular_routes.bookings) ELSE AbsentV),
             Seasonal("dict",
                      IF "demand" \in DOMAIN a.seasonal_trends
                      THEN ListV(a.seasonal_trends.demand) ELSE AbsentV),
             Plain("dict"), Plain("dict"))

InitService ==
    /\ ScraperConstructed
    /\ openai_api_key = InitKey(NoneV, NoneV)
    /\ max_retries = 3
    /\ timeout = 30
    /\ json_error_is_request_exception = TRUE
    /\ pc = "idle"
    /\ market_analysis = NonDict("none", TRUE)
    /\ attempt = 0
    /\ requests = 0
    /\ responses = <<>>
    /\ sleeps = <<>>
    /\ ai_insights = NoInsights
    /\ raised = FALSE
    /\ returned_at = 0
    /\ ret = Return(<<>>)
    /\ data_in = NotATable("none")
    /\ insights_in = <<>>
    /\ flight_data = NotATable("none")
    /\ processed_data = NotATable("none")
    /\ now_month \in {1, 7}

\* main.py lines 32-34 up to line 57 of generate_insights: the table t of
\* the scraper goes through analyzer.analyze_market_trends, and its result
\* through the validation and configuration test of generate_insights
GetMarketData(t) ==
    /\ UNCHANGED scraper_vars
    /\ pc = "idle"
    /\ LET r == analyze_market_trends(processed_data, t, now_month)
           a == ToAnalysis(r.ret)
       IN  /\ processed_data' = r.processed_data
           /\ flight_data' = r.data
           /\ market_analysis' = a
           /\ pc' = IF InvalidAnalysis(a) THEN "fallback"
                    ELSE IF _is_openai_configured(openai_api_key) /\ ~PromptRaises(a)
                         THEN "remote" ELSE "rule"
    /\ data_in' = t
    /\ attempt' = 0
    /\ requests' = 0
    /\ responses' = <<>>
    /\ sleeps' = <<>>
    /\ ai_insights' = NoInsights
    /\ raised' = FALSE
    /\ returned_at' = 0
    /\ ret' = Return(<<>>)
    /\ UNCHANGED <<now_month, openai_api_key, max_retries, timeout,
                   json_error_is_request_exception, insights_in>>

NextService ==
    \/ \E t \in ServiceTables : GetMarketData(t)
    \/ RuleBased
    \/ Finish

SpecService == InitService /\ [][NextService]_vars

\* C27: across any sequence of calls of the /api/market-data handler, no
\* field of the shared analyzer or insight-generator objects is modified.
C27_NoSharedWrite ==
    [][/\ processed_data' = processed_data
       /\ openai_api_key' = openai_api_key
       /\ max_retries' = max_retries
       /\ timeout' = timeout]_vars

\* C28: without a credential, the insights for an analysis that
\* analyze_market_trends produced have the demand insight of the default
\* score 50 ("Lower demand"), the route insight "Route Network Analysis" and
\* the last insight "Strategic Growth Opportunities", because the analysis
\* carries no statistics.demand_score, statistics.total_routes,
\* popular_routes.bookings or seasonal_trends.demand.
C28_DefaultsAlwaysUsed ==
    /\ (pc \in {"rule", "done"}) =>
          /\ market_analysis.statistics.demand_score = AbsentV
          /\ market_analysis.statistics.total_routes = AbsentV
          /\ market_analysis.popular_routes.bookings = AbsentV
          /\ market_analysis.seasonal_trends.demand = AbsentV
    /\ pc \notin {"remote", "fallback"}
    /\ (pc = "done") =>
          /\ returned_at = 57
          /\ ~ret.raise
          /\ Len(ret.list) = 4
          /\ ret.list[2].title = "Demand Assessment"
          /\ ret.list[2].content.text[1] = "Lower demand score of "
          /\ ret.list[2].content.args = << <<"5", "0">> >>
          /\ ret.list[3].title = "Route Network Analysis"
          /\ ret.list[3].content.args = << <<"2", "0">> >>
          /\ ret.list[4].title = "Strategic Growth Opportunities"

\* the insights of a request whose table had MaxSeries records
C28_Witness ==
    /\ pc = "done"
    /\ returned_at = 57
    /\ data_in.t = "table"
    /\ Len(data_in.rows) = MaxSeries
    /\ processed_data = _clean_data(data_in).ret
    /\ ret.list[1].title = "Price Trend Analysis"

----------------------------------------------------------------------------
(* _calculate_market_health on cleaned tables *)

MaxHealthRows == 12

\* one row per day from 2 January 2024 on, over the first `routes` of the 12
\* routes between the 4 airports, prices 100 - spread and 100 + spread in
\* turn, `bookings` of 20 seats taken
HealthRow(i, routes, spread, bookings) ==
    Row(Cell("str", 1 + i, 1),
        Airports[(((i - 1) % routes) \div 3) + 1],
        Airports[(((((i - 1) % routes) \div 3) + (((i - 1) % routes) % 3) + 1) % 4) + 1],
        "QF",
        Num(IF i % 2 = 0 THEN 100 + spread ELSE 100 - spread, 1),
        bookings,
        Num(20, 1))
HealthTables ==
    { DataFrame(RawColumns \ missing, tolist([i \in 1..n |-> HealthRow(i, routes, spread, bookings)])) :
        n \in {1, 2, MaxHealthRows}, routes \in {1, 5, 6, 10, 11, 12}, spread \in {0, 12, 20, 30},
        bookings \in {Num(17, 1), Num(15, 1), Num(10, 1), Cell("text", 0, 1)},
        missing \in {{}, {"capacity"}} }

InitHealth ==
    /\ ScraperConstructed
    /\ openai_api_key = InitKey(NoneV, NoneV)
    /\ max_retries = 3
    /\ timeout = 30
    /\ json_error_is_request_exception = TRUE
    /\ pc = "idle"
    /\ market_analysis = NonDict("none", TRUE)
    /\ attempt = 0
    /\ requests = 0
    /\ responses = <<>>
    /\ sleeps = <<>>
    /\ ai_insights = NoInsights
    /\ raised = FALSE
    /\ returned_at = 0
    /\ ret = ""
    /\ data_in \in { _clean_data(t).ret : t \in HealthTables }
    /\ insights_in = <<>>
    /\ flight_data = NotATable("none")
    /\ processed_data = NotATable("none")
    /\ now_month = 1

\* self._calculate_market_health(data), as line 473 calls it on the cleaned table
CalculateMarketHealth ==
    /\ UNCHANGED scraper_vars
    /\ pc = "idle"
    /\ ret' = _calculate_market_health(data_in)
    /\ pc' = "health"
    /\ UNCHANGED <<openai_api_key, max_retries, timeout, json_error_is_request_exception,
                   market_analysis, attempt, requests, responses, sleeps, ai_insights,
                   raised, returned_at, insights_in, data_in, flight_data, processed_data,
                   now_month>>

SpecHealth == InitHealth /\ [][CalculateMarketHealth]_vars

\* the rubric on whole numbers: for n prices of sum S and sum of squares Q,
\* std / mean < 2/10  iff  25 n (n Q - S S) < (n - 1) S S, and
\* std / mean < 3/10  iff  100 n (n Q - S S) < 9 (n - 1) S S
PriceSum == Sum(Column(Column(data_in.rows, "price"), "n"))
PriceSquares == Sum(tolist([i \in 1..Len(data_in.rows) |-> data_in.rows[i].price.n * data_in.rows[i].price.n]))
PricePoints ==
    LET n == Len(data_in.rows)
        spread == n * (n * PriceSquares - PriceSum * PriceSum)
    IN  IF n < 2 THEN 0
        ELSE IF 25 * spread < (n - 1) * PriceSum * PriceSum THEN 2
        ELSE IF 100 * spread < 9 * (n - 1) * PriceSum * PriceSum THEN 1
        ELSE 0
\* every row of a health table has 20 seats, so the mean load factor is the
\* bookings taken over 20 times the rows whose bookings are a number
LoadPoints ==
    LET taken == Numbers(Column(data_in.rows, "bookings"))
        total == Sum(Column(taken, "n"))
    IN  IF "load_factor" \notin data_in.columns \/ taken = <<>> THEN 0
        ELSE IF 10 * total > 8 * 20 * Len(taken) THEN 2
        ELSE IF 10 * total > 7 * 20 * Len(taken) THEN 1
        ELSE 0
RoutePoints ==
    LET routes == Cardinality({ <<data_in.rows[i].origin, data_in.rows[i].destination>> :
                                  i \in 1..Len(data_in.rows) })
    IN  IF routes > 10 THEN 2 ELSE IF routes > 5 THEN 1 ELSE 0

\* C21: the market-health label of a cleaned table follows the 0-6 point
\* rubric: price coefficient of variation < 0.2 adds 2, < 0.3 adds 1; mean
\* load factor > 0.8 adds 2, > 0.7 adds 1; distinct routes > 10 adds 2, > 5
\* adds 1; a score >= 5 is "Excellent", >= 3 "Good", >= 1 "Fair", otherwise
\* "Poor".
C21_HealthRubric ==
    (pc = "health") =>
        LET score == PricePoints + LoadPoints + RoutePoints
        IN  ret = (IF score >= 5 THEN "Excellent" ELSE IF score >= 3 THEN "Good"
                   ELSE IF score >= 1 THEN "Fair" ELSE "Poor")

\* 12 routes, 17 of 20 seats taken (0.85), prices 88 and 112 in turn
\* (coefficient of variation 0.13): 6 points, "Excellent"
C21_Witness ==
    /\ pc = "health"
    /\ PricePoints = 2 /\ LoadPoints = 2 /\ RoutePoints = 2
    /\ Len(data_in.rows) >= 12
    /\ \A i \in 1..Len(data_in.rows) : data_in.rows[i].load_factor = Num(17, 20)
    /\ ret = "Excellent"


----------------------------------------------------------------------------
(* _parse_ai_insights on texts built from a few kinds of line *)

MaxLines == 6

PlainLines == { <<"x">>, <<" ", "y", " ">>, <<>> }
TitledHeaders == { BoldLine("A"), NumberedLine("1", "C") }
EmptyHeaders == { <<"*", "*", "*", "*">> }
ResponseLines ==
    UNION { [1..n -> PlainLines \cup TitledHeaders \cup EmptyHeaders] : n \in 0..MaxLines }
    \cup { << <<"2", ".">>, <<"x">> >>,
           << BoldLine("A"), <<"0", ".", "z">>, <<"1", "0", ".", " ", "z">> >>,
           << <<" ", "9", ".", "D", " ">>, <<"x">>, <<"*", "*">>, <<"y">> >> }

InitParse ==
    /\ ScraperConstructed
    /\ openai_api_key = InitKey(NoneV, NoneV)
    /\ max_retries = 3
    /\ timeout = 30
    /\ json_error_is_request_exception = TRUE
    /\ pc = "idle"
    /\ market_analysis = NonDict("none", TRUE)
    /\ attempt = 0
    /\ requests = 0
    /\ responses = <<>>
    /\ sleeps = <<>>
    /\ ai_insights = NoInsights
    /\ raised = FALSE
    /\ returned_at = 0
    /\ ret = <<>>
    /\ data_in \in ResponseLines
    /\ insights_in = <<>>
    /\ flight_data = NotATable("none")
    /\ processed_data = NotATable("none")
    /\ now_month = 1

\* self._parse_ai_insights(insights_text) of line 117, the text being the
\* lines of data_in joined by newlines
ParseAIInsights ==
    /\ UNCHANGED scraper_vars
    /\ pc = "idle"
    /\ ret' = _parse_ai_insights(JoinLines(data_in))
    /\ pc' = "parsed"
    /\ UNCHANGED <<openai_api_key, max_retries, timeout, json_error_is_request_exception,
                   market_analysis, attempt, requests, responses, sleeps, ai_insights,
                   raised, returned_at, insights_in, data_in, flight_data, processed_data,
                   now_month>>

SpecParse == InitParse /\ [][ParseAIInsights]_vars

\* what the claim calls a header line, and the header text without its marker
HeaderTitle(line) ==
    CASE line = BoldLine("A") -> <<"A">>
      [] line = NumberedLine("1", "C") -> <<"C">>
      [] line = <<" ", "9", ".", "D", " ">> -> <<"D">>
      [] line \in {<<"*", "*", "*", "*">>, <<"*", "*">>, <<"2", ".">>} -> <<>>
      [] OTHER -> <<"no header">>
IsHeader(line) == HeaderTitle(line) # <<"no header">>

\* the text of a plain line without the blanks around it
PlainText(line) ==
    CASE line = <<" ", "y", " ">> -> <<"y">>
      [] OTHER -> line

\* the non-empty lines from line i up to the next header, joined by blanks
RECURSIVE ContentFrom(_, _)
ContentFrom(ls, i) ==
    IF i > Len(ls) \/ IsHeader(ls[i]) THEN <<>>
    ELSE LET rest == ContentFrom(ls, i + 1)
         IN  IF ls[i] = <<>> THEN rest
             ELSE IF rest = <<>> THEN PlainText(ls[i])
             ELSE PlainText(ls[i]) \o <<" ">> \o rest

\* one section per header line from line i on, in order of appearance
RECURSIVE SectionsFrom(_, _)
SectionsFrom(ls, i) ==
    IF i > Len(ls) THEN <<>>
    ELSE IF IsHeader(ls[i])
    THEN <<[title |-> HeaderTitle(ls[i]), content |-> ContentFrom(ls, i + 1)]>>
         \o SectionsFrom(ls, i + 1)
    ELSE SectionsFrom(ls, i + 1)

\* C24 as stated: _parse_ai_insights returns, in order of appearance, the
\* first 4 sections of the text, a section starting at a header line (a line
\* wrapped in ** markers, or a line starting with a digit 1-9 and a dot),
\* its title the header text without the marker and its content exactly the
\* non-empty lines between that header and the next one; lines before the
\* first header belong to no insight.
C24_Original ==
    (pc = "parsed") => ret = FirstN(SectionsFrom(data_in, 1), 4)

\* C24 as amended: the same, of the sections whose title is not empty; a
\* header line that leaves no title ("****", "2.") ends the section before it
\* and starts none, so the lines after it up to the next header belong to no
\* insight either.
C24_ParsedSections ==
    (pc = "parsed") =>
        ret = FirstN(SelectSeq(SectionsFrom(data_in, 1), LAMBDA sec : sec.title # <<>>), 4)

\* five titled sections, one of the first four with a line of content: the fifth is cut
C24_Witness ==
    /\ pc = "parsed"
    /\ Len(ret) = 4
    /\ Len(SectionsFrom(data_in, 1)) = 5
    /\ \E i \in 1..Len(ret) : ret[i].content # <<>> /\ ret[i].title = <<"C">>

----------------------------------------------------------------------------
(* FlightDataScraper.get_flight_data and its cache.  A table is reduced to  *)
(* its first record: the date (in days from today), the route, the source. *)

MaxHour == 6

\* f"{origin}_{destination}_{days_back}" (line 82)
cache_key(origin, destination, days_back) ==
    origin \o <<"_">> \o destination \o <<"_">> \o IntStr(days_back)

\* lines 70-78 on the dictionary _load_cache returns, at hour now
_is_cache_valid(cache, key, now) ==
    /\ key \in DOMAIN cache
    /\ now - cache[key].timestamp < 6

\* data.to_dict('records'), and pd.DataFrame(records) of line 89
to_dict_records(data) == data.rows
FromRecords(records) ==
    DataFrame(IF records = <<>> THEN {} ELSE DOMAIN records[1], records)

\* what a source that answers gives for a request
SourceTable(origin, destination, days_back, source) ==
    DataFrame({"date", "origin", "destination", "source"},
              <<[date |-> 0 - days_back, origin |-> origin,
                 destination |-> destination, source |-> source]>>)

NoTable == NotATable("none")
EmptyTable == DataFrame({}, <<>>)

\* lines 342-352: the dictionary _save_cache writes
_cache_flight_data(cache, key, data, now) ==
    [k \in DOMAIN cache \cup {key} |->
        IF k = key THEN [timestamp |-> now, data |-> to_dict_records(data)]
        ELSE cache[k]]

NoneOrEmpty(data) == data.t # "table" \/ empty(data)

\* lines 80-112: amadeus and scraped are what _fetch_amadeus_data and
\* _scrape_flight_data give if they are called; _generate_mock_data answers
\* every request whose days_back is a day count
get_flight_data(cache, now, api_key, origin, destination, days_back, amadeus, scraped) ==
    LET key == cache_key(origin, destination, days_back)
    IN  IF _is_cache_valid(cache, key, now)
        THEN [ret |-> FromRecords(cache[key].data), cache |-> cache, consulted |-> <<>>]
        ELSE LET configured == api_key # AMADEUS_PLACEHOLDER
                 first == IF configured THEN amadeus ELSE NoTable
                 second == IF NoneOrEmpty(first) THEN scraped ELSE first
                 third == IF NoneOrEmpty(second)
                          THEN SourceTable(origin, destination, days_back, "mock")
                          ELSE second
             IN  [ret |-> third,
                  cache |-> _cache_flight_data(cache, key, third, now),
                  consulted |-> (IF configured THEN <<"amadeus">> ELSE <<>>)
                                \o (IF NoneOrEmpty(first) THEN <<"scraping">> ELSE <<>>)
                                \o (IF NoneOrEmpty(second) THEN <<"mock">> ELSE <<>>)]

\* the requests: origin, destination, days_back
FlightRequests ==
    { << <<"S", "Y", "D">>, <<"M", "E", "L", "_", "B", "N", "E">>, 30 >>,
      << <<"S", "Y", "D", "_", "M", "E", "L">>, <<"B", "N", "E">>, 30 >>,
      << <<"S", "Y", "D">>, <<"M", "E", "L">>, 7 >> }

InitScraper ==
    /\ openai_api_key = InitKey(NoneV, NoneV)
    /\ max_retries = 3
    /\ timeout = 30
    /\ json_error_is_request_exception = TRUE
    /\ pc = "idle"
    /\ market_analysis = NonDict("none", TRUE)
    /\ attempt = 0
    /\ requests = 0
    /\ responses = <<>>
    /\ sleeps = <<>>
    /\ ai_insights = NoInsights
    /\ raised = FALSE
    /\ returned_at = 0
    /\ ret = NoTable
    /\ data_in = <<>>
    /\ insights_in = <<>>
    /\ flight_data = NotATable("none")
    /\ processed_data = NotATable("none")
    /\ now_month = 1
    /\ amadeus_api_key \in {AMADEUS_PLACEHOLDER, <<"k">>}
    /\ cache_file = <<>>
    /\ now_hour = 0
    /\ consulted = <<>>

\* scraper.get_flight_data(q[1], q[2], q[3])
GetFlightData(q, amadeus, scraped) ==
    /\ pc \in {"idle", "fetched"}
    /\ LET r == get_flight_data(cache_file, now_hour, amadeus_api_key,
                                q[1], q[2], q[3], amadeus, scraped)
       IN  /\ ret' = r.ret
           /\ cache_file' = r.cache
           /\ consulted' = r.consulted
    /\ data_in' = q
    /\ pc' = "fetched"
    /\ UNCHANGED <<openai_api_key, max_retries, timeout, json_error_is_request_exception,
                   market_analysis, attempt, requests, responses, sleeps, ai_insights,
                   raised, returned_at, insights_in, flight_data, processed_data,
                   now_month, amadeus_api_key, now_hour>>

\* an hour passes between two requests
Tick ==
    /\ now_hour < MaxHour
    /\ now_hour' = now_hour + 1
    /\ pc' = "idle"
    /\ UNCHANGED <<openai_api_key, max_retries, timeout, json_error_is_request_exception,
                   market_analysis, attempt, requests, responses, sleeps, ai_insights,
                   raised, returned_at, ret, data_in, insights_in, flight_data,
                   processed_data, now_month, amadeus_api_key, cache_file, consulted>>

NextScraper ==
    \/ \E q \in FlightRequests :
         \E amadeus \in {NoTable, EmptyTable, SourceTable(q[1], q[2], q[3], "amadeus")},
            scraped \in {EmptyTable, SourceTable(q[1], q[2], q[3], "scraped")} :
              GetFlightData(q, amadeus, scraped)
    \/ Tick

SpecScraper == InitScraper /\ [][NextScraper]_vars

\* the records are those of a source asked for the request q
RecordsOf(records, q) ==
    /\ records # <<>>
    /\ records[1].origin = q[1]
    /\ records[1].destination = q[2]
    /\ records[1].date = 0 - q[3]

\* the cache holds an entry of the request q that is less than 6 hours old
FreshEntry(q) ==
    LET key == cache_key(q[1], q[2], q[3])
    IN  /\ key \in DOMAIN cache_file
        /\ RecordsOf(cache_file[key].data, q)
        /\ now_hour - cache_file[key].timestamp < 6

\* C30: get_flight_data consults no source and leaves the cache unchanged
\* exactly when the cache holds an entry for (origin, destination, days_back)
\* that is less than 6 hours old, and then returns that entry's records;
\* otherwise the sources are consulted and the result is stored under the
\* key of the request at the current time.
C30_CacheHit ==
    [][(pc' = "fetched") =>
         LET q == data_in'
             key == cache_key(q[1], q[2], q[3])
         IN  IF FreshEntry(q)
             THEN /\ consulted' = <<>>
                  /\ cache_file' = cache_file
                  /\ ret'.rows = cache_file[key].data
             ELSE /\ consulted' # <<>>
                  /\ key \in DOMAIN cache_file'
                  /\ cache_file'[key] = [timestamp |-> now_hour, data |-> ret'.rows]
                  /\ RecordsOf(ret'.rows, q)]_vars

====
